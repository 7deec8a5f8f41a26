--------------------- MODULE ApplicationMessengerProofs ---------------------
(***************************************************************************)
(* Proofs about ApplicationMessenger for any threads and messages, however  *)
(* deep the main thread is in dialogs and wherever the program stops.        *)
(*                                                                         *)
(* The argument.  A message is in one of five places: a queue, the stack,    *)
(* and, for good, among those handled, dropped or abandoned (Disjoint);      *)
(* steps move it from one to another, and the numbers of the messages of a   *)
(* sender in all five are those it has sent (Counted), so that a message     *)
(* that is sent is a new one and the last of its sender.  The event of a     *)
(* message is set where it leaves the queues and the stack, except by an     *)
(* exception, so that who waits is waiting for one of the others (Woken).    *)
(***************************************************************************)
EXTENDS ApplicationMessenger, FiniteSetTheorems, SequenceTheorems, TLAPS

Senders == Threads \cup {"main"}
Places == {"window", "message", "render", "handle", "join", "cleanup", "unload"}
Frames == [at : Places, msg : Messages \cup {NoMessage}]

\* A queue holds each message once, those of a sender in the order of their numbers.
Fifo(q) ==
  /\ q \in Seq(Messages) /\ IsInjective(q)
  /\ \A i, k \in 1 .. Len(q) : i < k /\ q[i].from = q[k].from => q[i].n < q[k].n

\* A stack is the main loop with messages above it, each once; only TMSG_QUIT stops.
Shape(s) ==
  /\ s \in Seq(Frames)
  /\ \A i \in 1 .. Len(s) :
       /\ s[i].msg = NoMessage <=> i = 1
       /\ s[i].at \in {"handle", "join", "cleanup", "unload"} => i # 1
       /\ s[i].at \in {"join", "cleanup", "unload"} => s[i].msg.kind = "quit"
  /\ \A i, k \in 1 .. Len(s) : s[i].msg = s[k].msg => i = k

MessagesOn(s) == {s[i].msg : i \in 1 .. Len(s)} \ {NoMessage}

QueuesOK ==
  /\ Fifo(m_vecMessages) /\ Fifo(m_vecWindowMessages)
  /\ \A m \in Range(m_vecMessages) : m.kind # "window"
  /\ \A m \in Range(m_vecWindowMessages) : m.kind = "window"

StackOK == Shape(stack) /\ \A i \in 1 .. Len(stack) : stack[i].at = "cleanup" => m_bStop

Types ==
  /\ m_bStop \in BOOLEAN
  /\ sent \in [Senders -> Nat]
  /\ pc \in [Threads -> {"run", "queued", "wait", "end"}]
  /\ msg \in [Threads -> Messages \cup {NoMessage}]
  /\ handled \subseteq Messages /\ dropped \subseteq Messages /\ abandoned \subseteq Messages

Shapes == QueuesOK /\ StackOK /\ Types

Disjoint ==
  /\ Queued \cap OnStack = {}
  /\ (Queued \cup OnStack) \cap (handled \cup dropped \cup abandoned) = {}
  /\ handled \cap (dropped \cup abandoned) = {} /\ dropped \cap abandoned = {}

\* The messages sent so far, and how many they are.
Placed == Queued \cup OnStack \cup handled \cup dropped \cup abandoned
Of(t, S) == {m \in S : m.from = t}
Counted ==
  /\ \A m \in Placed : m.n <= sent[m.from]
  /\ \A t \in Senders : IsFiniteSet(Of(t, Placed)) /\ Cardinality(Of(t, Placed)) = sent[t]
Once == Disjoint /\ Counted

\* Who waits waits for a message of its own, which is known; who is woken may go on.
Woken ==
  /\ \A t \in Threads : pc[t] \in {"queued", "wait"} =>
       /\ msg[t] \in Messages /\ msg[t].from = t /\ msg[t].wait
       /\ msg[t] \in waitEvent \cup Queued \cup OnStack \cup abandoned
  /\ waitEvent \subseteq handled \cup dropped
  /\ waitEvent \cap dropped # {} => m_bStop

IInv == Shapes /\ Once /\ Woken
-----------------------------------------------------------------------------
(* Sequences *)

\* What Append does.
LEMMA AppendFacts ==
  ASSUME NEW S, NEW s \in Seq(S), NEW e \in S
  PROVE  /\ Append(s, e) \in Seq(S) /\ Len(Append(s, e)) = Len(s) + 1
         /\ \A i \in 1 .. Len(s) : Append(s, e)[i] = s[i]
         /\ Append(s, e)[Len(s) + 1] = e
         /\ Len(s) \in Nat
OBVIOUS

\* What Head and Tail of a sequence that is not empty are.
LEMMA TailFacts ==
  ASSUME NEW S, NEW s \in Seq(S), s # << >>
  PROVE  /\ Tail(s) \in Seq(S) /\ Len(Tail(s)) = Len(s) - 1 /\ Len(s) \in Nat /\ Len(s) >= 1
         /\ \A i \in 1 .. Len(s) - 1 : Tail(s)[i] = s[i + 1]
         /\ Head(s) = s[1] /\ s[1] \in S
BY HeadTailProperties

\* What is left when the last element is taken off.
LEMMA FrontFacts ==
  ASSUME NEW S, NEW s \in Seq(S), s # << >>
  PROVE  /\ Front(s) \in Seq(S) /\ Len(Front(s)) = Len(s) - 1
         /\ \A i \in 1 .. Len(s) - 1 : Front(s)[i] = s[i]
         /\ s[Len(s)] \in S /\ Len(s) \in Nat /\ Len(s) >= 1
<1>1. Len(s) \in Nat /\ Len(s) >= 1
  OBVIOUS
<1>2. s[Len(s)] \in S
  OBVIOUS
<1>3. \A i \in 1 .. Len(s) - 1 : s[i] \in S
  OBVIOUS
<1> DEFINE t == SubSeq(s, 1, Len(s) - 1)
<1>4. /\ t \in Seq(S)
      /\ Len(t) = (IF 1 <= Len(s) - 1 THEN (Len(s) - 1) - 1 + 1 ELSE 0)
      /\ \A i \in 1 .. (Len(s) - 1) - 1 + 1 : t[i] = s[1 + i - 1]
  <2>1. Len(s) - 1 \in Int
    BY <1>1
  <2> QED
    BY <1>3, <2>1, SubSeqProperties
<1> HIDE DEF t
<1>5. Len(t) = Len(s) - 1
  <2>1. ASSUME NEW n \in Nat, n >= 1
        PROVE  (IF 1 <= n - 1 THEN (n - 1) - 1 + 1 ELSE 0) = n - 1
    BY <2>1
  <2> QED
    BY <1>1, <1>4, <2>1, Zenon
<1>6. \A i \in 1 .. Len(s) - 1 : t[i] = s[i]
  <2>1. ASSUME NEW n \in Nat, NEW i \in 1 .. n - 1
        PROVE  i \in 1 .. (n - 1) - 1 + 1 /\ 1 + i - 1 = i
    OBVIOUS
  <2> QED
    BY <1>1, <1>4, <2>1, Zenon
<1>7. Front(s) = t
  BY Zenon DEF Front, t
<1> QED
  BY <1>1, <1>2, <1>4, <1>5, <1>6, <1>7, Zenon

\* The elements of a sequence, by its positions.
LEMMA RangeIs ==
  ASSUME NEW S, NEW s \in Seq(S)
  PROVE  Range(s) = {s[i] : i \in 1 .. Len(s)} /\ DOMAIN s = 1 .. Len(s)
BY DEF Range

\* A message that is new and the last of its sender may be appended to a queue.
LEMMA FifoAppend ==
  ASSUME NEW q, NEW m \in Messages, Fifo(q), m \notin Range(q),
         \A x \in Range(q) : x.from = m.from => x.n < m.n
  PROVE  Fifo(Append(q, m)) /\ Range(Append(q, m)) = Range(q) \cup {m}
<1>1. q \in Seq(Messages)
  BY DEF Fifo
<1> DEFINE a == Append(q, m)
<1>2. /\ a \in Seq(Messages) /\ Len(a) = Len(q) + 1 /\ Len(q) \in Nat
      /\ \A i \in 1 .. Len(q) : a[i] = q[i]
      /\ a[Len(q) + 1] = m
  BY <1>1, AppendFacts
<1>3. /\ Range(q) = {q[i] : i \in 1 .. Len(q)} /\ DOMAIN q = 1 .. Len(q)
      /\ Range(a) = {a[i] : i \in 1 .. Len(a)} /\ DOMAIN a = 1 .. Len(a)
  BY <1>1, <1>2, RangeIs
<1> HIDE DEF a
<1>4. \A i \in 1 .. Len(a) : (i \in 1 .. Len(q) /\ a[i] = q[i] /\ a[i] \in Range(q)) \/ (i = Len(q) + 1 /\ a[i] = m)
  BY <1>2, <1>3
<1>5. Range(a) = Range(q) \cup {m}
  <2>1. Range(a) \subseteq Range(q) \cup {m}
    BY <1>3, <1>4
  <2>2. Range(q) \subseteq Range(a)
    <3>1. \A i \in 1 .. Len(q) : i \in 1 .. Len(a) /\ a[i] = q[i]
      BY <1>2
    <3> QED
      BY <3>1, <1>3
  <2>3. m \in Range(a)
    <3>1. Len(q) + 1 \in 1 .. Len(a)
      BY <1>2
    <3> QED
      BY <3>1, <1>2, <1>3
  <2> QED
    BY <2>1, <2>2, <2>3
<1>6. IsInjective(a)
  <2> SUFFICES ASSUME NEW i \in 1 .. Len(a), NEW k \in 1 .. Len(a), a[i] = a[k]
               PROVE  i = k
    BY <1>3 DEF IsInjective
  <2> QED
    BY <1>3, <1>4 DEF Fifo, IsInjective
<1>7. ASSUME NEW i \in 1 .. Len(a), NEW k \in 1 .. Len(a), i < k, a[i].from = a[k].from
      PROVE  a[i].n < a[k].n
  <2>1. i \in 1 .. Len(q) /\ a[i] = q[i] /\ a[i] \in Range(q)
    BY <1>2, <1>4, <1>7
  <2>2. CASE k \in 1 .. Len(q) /\ a[k] = q[k]
    BY <2>1, <2>2, <1>7 DEF Fifo
  <2>3. CASE k = Len(q) + 1 /\ a[k] = m
    BY <2>1, <2>3, <1>7
  <2> QED
    BY <2>2, <2>3, <1>4
<1> QED
  BY <1>2, <1>5, <1>6, <1>7 DEF Fifo, a

\* The message at the head of a queue is in it once and before all of its sender.
LEMMA FifoTail ==
  ASSUME NEW q, Fifo(q), q # << >>
  PROVE  /\ Fifo(Tail(q)) /\ Head(q) \in Range(q) /\ Head(q) \in Messages
         /\ Range(Tail(q)) = Range(q) \ {Head(q)}
         /\ \A x \in Range(Tail(q)) : x.from = Head(q).from => Head(q).n < x.n
<1>1. q \in Seq(Messages)
  BY DEF Fifo
<1> DEFINE t == Tail(q)
<1> DEFINE h == Head(q)
<1>2. /\ t \in Seq(Messages) /\ Len(t) = Len(q) - 1 /\ Len(q) \in Nat /\ Len(q) >= 1
      /\ \A i \in 1 .. Len(q) - 1 : t[i] = q[i + 1]
      /\ h = q[1] /\ q[1] \in Messages
  BY <1>1, TailFacts
<1>3. /\ Range(q) = {q[i] : i \in 1 .. Len(q)} /\ DOMAIN q = 1 .. Len(q)
      /\ Range(t) = {t[i] : i \in 1 .. Len(t)} /\ DOMAIN t = 1 .. Len(t)
  BY <1>1, <1>2, RangeIs
<1> HIDE DEF t, h
<1>4. \A i \in 1 .. Len(t) : i + 1 \in 1 .. Len(q) /\ i + 1 > 1 /\ t[i] = q[i + 1]
  BY <1>2
<1>5. \A i \in 1 .. Len(q) : i # 1 => i - 1 \in 1 .. Len(t) /\ q[i] = t[i - 1]
  BY <1>2
<1>6. 1 \in 1 .. Len(q)
  BY <1>2
<1>7. \A i, k \in 1 .. Len(q) : q[i] = q[k] => i = k
  BY <1>3 DEF Fifo, IsInjective
<1>8. Range(t) = Range(q) \ {h}
  <2>1. \A x \in Range(t) : x \in Range(q) /\ x # h
    <3> SUFFICES ASSUME NEW i \in 1 .. Len(t) PROVE t[i] \in Range(q) /\ t[i] # h
      BY <1>3
    <3> QED
      BY <1>2, <1>3, <1>4, <1>6, <1>7
  <2>2. \A x \in Range(q) : x # h => x \in Range(t)
    <3> SUFFICES ASSUME NEW i \in 1 .. Len(q), q[i] # h PROVE q[i] \in Range(t)
      BY <1>3
    <3> QED
      BY <1>2, <1>3, <1>5
  <2> QED
    BY <2>1, <2>2
<1>9. IsInjective(t)
  <2> SUFFICES ASSUME NEW i \in 1 .. Len(t), NEW k \in 1 .. Len(t), t[i] = t[k]
               PROVE  i = k
    BY <1>3 DEF IsInjective
  <2>1. i + 1 = k + 1
    BY <1>4, <1>7
  <2> QED
    BY <2>1
<1>10. ASSUME NEW i \in 1 .. Len(t), NEW k \in 1 .. Len(t), i < k, t[i].from = t[k].from
       PROVE  t[i].n < t[k].n
  <2>1. i + 1 < k + 1
    BY <1>10
  <2> QED
    BY <2>1, <1>4, <1>10 DEF Fifo
<1>11. ASSUME NEW i \in 1 .. Len(t), t[i].from = h.from
       PROVE  h.n < t[i].n
  BY <1>2, <1>4, <1>6, <1>11 DEF Fifo
<1>12. h \in Range(q) /\ h \in Messages
  BY <1>2, <1>3, <1>6
<1> QED
  BY <1>2, <1>3, <1>8, <1>9, <1>10, <1>11, <1>12 DEF Fifo, t, h
-----------------------------------------------------------------------------
(* The stack *)

\* NoMessage is none of the messages: it has no number.
LEMMA NoMessageIsNone == NoMessage \notin Messages
<1> SUFFICES ASSUME NoMessage \in Messages PROVE FALSE
  OBVIOUS
<1>1. NoMessage \in [from : Threads \cup {"main"}, n : Nat \ {0}, kind : Kinds, wait : BOOLEAN]
  BY MessengerAssumption
<1> QED
  BY <1>1 DEF NoMessage

\* A frame is its place and its message.
LEMMA FrameFacts ==
  ASSUME NEW at \in Places, NEW m \in Messages \cup {NoMessage}
  PROVE  Frame(at, m) \in Frames /\ Frame(at, m).at = at /\ Frame(at, m).msg = m
BY DEF Frame, Frames

\* A new message is put on the stack to be handled.
LEMMA Push ==
  ASSUME NEW s, NEW m \in Messages, Shape(s), s # << >>, m \notin MessagesOn(s)
  PROVE  /\ Shape(Append(s, Frame("handle", m)))
         /\ MessagesOn(Append(s, Frame("handle", m))) = MessagesOn(s) \cup {m}
         /\ \A i \in 1 .. Len(Append(s, Frame("handle", m))) :
              Append(s, Frame("handle", m))[i].at = "cleanup" => \E k \in 1 .. Len(s) : s[k].at = "cleanup"
<1> DEFINE f == Frame("handle", m)
<1>1. f \in Frames /\ f.at = "handle" /\ f.msg = m
  BY FrameFacts DEF Places
<1>2. s \in Seq(Frames)
  BY DEF Shape
<1> DEFINE a == Append(s, f)
<1> HIDE DEF f
<1>3. /\ a \in Seq(Frames) /\ Len(a) = Len(s) + 1 /\ Len(s) \in Nat
      /\ \A i \in 1 .. Len(s) : a[i] = s[i]
      /\ a[Len(s) + 1] = f
  BY <1>1, <1>2, AppendFacts
<1>4. Len(s) # 0
  BY <1>2
<1>5. m # NoMessage
  BY NoMessageIsNone
<1> HIDE DEF a
<1>6. \A i \in 1 .. Len(a) : (i \in 1 .. Len(s) /\ a[i] = s[i]) \/ (i = Len(s) + 1 /\ i # 1 /\ a[i] = f)
  BY <1>3, <1>4
<1>7. \A i \in 1 .. Len(s) : s[i].msg # m
  BY <1>5 DEF MessagesOn
<1>8. ASSUME NEW i \in 1 .. Len(a)
      PROVE  /\ a[i].msg = NoMessage <=> i = 1
             /\ a[i].at \in {"handle", "join", "cleanup", "unload"} => i # 1
             /\ a[i].at \in {"join", "cleanup", "unload"} => a[i].msg.kind = "quit"
             /\ a[i].at = "cleanup" => \E k \in 1 .. Len(s) : s[k].at = "cleanup"
  BY <1>1, <1>5, <1>6 DEF Shape
<1>9. ASSUME NEW i \in 1 .. Len(a), NEW k \in 1 .. Len(a), a[i].msg = a[k].msg
      PROVE  i = k
  BY <1>1, <1>6, <1>7, <1>9 DEF Shape
<1>10. MessagesOn(a) = MessagesOn(s) \cup {m}
  <2>1. Len(s) + 1 \in 1 .. Len(a)
    BY <1>3
  <2>2. \A i \in 1 .. Len(s) : i \in 1 .. Len(a) /\ a[i] = s[i]
    BY <1>3
  <2> QED
    BY <2>1, <2>2, <1>1, <1>3, <1>5, <1>6 DEF MessagesOn
<1> QED
  BY <1>3, <1>8, <1>9, <1>10 DEF Shape, a, f

\* The message on top is taken off the stack.
LEMMA Pop ==
  ASSUME NEW s, Shape(s), s # << >>
  PROVE  /\ Shape(Front(s))
         /\ MessagesOn(Front(s)) = MessagesOn(s) \ {s[Len(s)].msg}
         /\ \A i \in 1 .. Len(Front(s)) :
              Front(s)[i].at = "cleanup" => \E k \in 1 .. Len(s) : s[k].at = "cleanup"
<1>1. s \in Seq(Frames)
  BY DEF Shape
<1> DEFINE f == Front(s)
<1>2. /\ f \in Seq(Frames) /\ Len(f) = Len(s) - 1 /\ Len(s) \in Nat /\ Len(s) >= 1
      /\ \A i \in 1 .. Len(s) - 1 : f[i] = s[i]
  BY <1>1, FrontFacts
<1> HIDE DEF f
<1>3. \A i \in 1 .. Len(f) : i \in 1 .. Len(s) /\ i # Len(s) /\ f[i] = s[i]
  BY <1>2
<1>4. \A i \in 1 .. Len(s) : i # Len(s) => i \in 1 .. Len(f)
  BY <1>2
<1>5. Len(s) \in 1 .. Len(s)
  BY <1>2
<1>6. Shape(f)
  BY <1>2, <1>3 DEF Shape
<1>7. MessagesOn(f) = MessagesOn(s) \ {s[Len(s)].msg}
  <2>1. \A i \in 1 .. Len(f) : f[i].msg # s[Len(s)].msg
    BY <1>3, <1>5 DEF Shape
  <2> QED
    BY <2>1, <1>3, <1>4 DEF MessagesOn
<1> QED
  BY <1>3, <1>6, <1>7 DEF f

\* The top goes on to another place with the same message.
LEMMA Move ==
  ASSUME NEW s, NEW at \in Places, Shape(s), s # << >>,
         at \in {"handle", "join", "cleanup", "unload"} => s[Len(s)].msg # NoMessage,
         at \in {"join", "cleanup", "unload"} => s[Len(s)].msg.kind = "quit"
  PROVE  /\ Shape(Append(Front(s), Frame(at, s[Len(s)].msg)))
         /\ MessagesOn(Append(Front(s), Frame(at, s[Len(s)].msg))) = MessagesOn(s)
         /\ \A i \in 1 .. Len(Append(Front(s), Frame(at, s[Len(s)].msg))) :
              Append(Front(s), Frame(at, s[Len(s)].msg))[i].at = "cleanup" =>
                at = "cleanup" \/ \E k \in 1 .. Len(s) : s[k].at = "cleanup"
<1>1. s \in Seq(Frames)
  BY DEF Shape
<1> DEFINE f == Front(s)
<1> DEFINE m == s[Len(s)].msg
<1>2. /\ f \in Seq(Frames) /\ Len(f) = Len(s) - 1 /\ Len(s) \in Nat /\ Len(s) >= 1
      /\ \A i \in 1 .. Len(s) - 1 : f[i] = s[i]
      /\ s[Len(s)] \in Frames
  BY <1>1, FrontFacts
<1>3. m \in Messages \cup {NoMessage}
  BY <1>2 DEF Frames
<1> DEFINE e == Frame(at, m)
<1> HIDE DEF f
<1>4. e \in Frames /\ e.at = at /\ e.msg = s[Len(s)].msg
  BY <1>3, FrameFacts
<1> DEFINE a == Append(f, e)
<1> HIDE DEF e, m
<1>5. /\ a \in Seq(Frames) /\ Len(a) = Len(f) + 1 /\ Len(f) \in Nat
      /\ \A i \in 1 .. Len(f) : a[i] = f[i]
      /\ a[Len(f) + 1] = e
  BY <1>2, <1>4, AppendFacts
<1> HIDE DEF a
<1>6. Len(a) = Len(s) /\ Len(s) \in 1 .. Len(s) /\ a[Len(s)] = e
  BY <1>2, <1>5
<1>7. \A i \in 1 .. Len(s) : i # Len(s) => a[i] = s[i]
  BY <1>2, <1>5
<1>8. \A i \in 1 .. Len(s) : a[i].msg = s[i].msg
  BY <1>4, <1>6, <1>7
<1>9. ASSUME NEW i \in 1 .. Len(a)
      PROVE  /\ a[i].msg = NoMessage <=> i = 1
             /\ a[i].at \in {"handle", "join", "cleanup", "unload"} => i # 1
             /\ a[i].at \in {"join", "cleanup", "unload"} => a[i].msg.kind = "quit"
             /\ a[i].at = "cleanup" => at = "cleanup" \/ \E k \in 1 .. Len(s) : s[k].at = "cleanup"
  <2>1. CASE i = Len(s)
    BY <2>1, <1>4, <1>6, <1>8 DEF Shape
  <2>2. CASE i # Len(s)
    BY <2>2, <1>6, <1>7 DEF Shape
  <2> QED
    BY <2>1, <2>2
<1>10. \A i, k \in 1 .. Len(a) : a[i].msg = a[k].msg => i = k
  BY <1>6, <1>8 DEF Shape
<1>11. MessagesOn(a) = MessagesOn(s)
  BY <1>6, <1>8 DEF MessagesOn
<1> QED
  BY <1>5, <1>9, <1>10, <1>11 DEF Shape, a, e, f, m
-----------------------------------------------------------------------------
(* One step of the queues, of the stack, of the count *)

\* The frame on top and its message.
LEMMA TopFacts ==
  ASSUME Shapes, stack # << >>
  PROVE  /\ Top.at \in Places /\ Top.msg \in Messages \cup {NoMessage}
         /\ Top.at \in {"handle", "join", "cleanup", "unload"} => Top.msg # NoMessage
         /\ Top.msg # NoMessage => Top.msg \in OnStack
         /\ Top.at \in {"join", "cleanup", "unload"} => Top.msg.kind = "quit"
         /\ Top.at = "cleanup" => m_bStop
<1>1. Shape(stack) /\ stack \in Seq(Frames)
  BY DEF Shapes, Shape, QueuesOK, StackOK, Types
<1>2. stack[Len(stack)] \in Frames /\ Len(stack) \in 1 .. Len(stack)
  BY <1>1, FrontFacts
<1>3. Top \in Frames /\ Top = stack[Len(stack)]
  BY <1>2 DEF Top
<1>4. Top.at \in Places /\ Top.msg \in Messages \cup {NoMessage}
  BY <1>3 DEF Frames
<1>5. Top.at \in {"handle", "join", "cleanup", "unload"} => Top.msg # NoMessage
  BY <1>1, <1>2, <1>3 DEF Shape
<1>6. Top.msg # NoMessage => Top.msg \in OnStack
  BY <1>2, <1>3 DEF OnStack
<1>7. Top.at \in {"join", "cleanup", "unload"} => Top.msg.kind = "quit"
  BY <1>1, <1>2, <1>3 DEF Shape
<1>8. Top.at = "cleanup" => m_bStop
  BY <1>2, <1>3 DEF Shapes, QueuesOK, StackOK, Types
<1> QED
  BY <1>4, <1>5, <1>6, <1>7, <1>8

\* A message that is on the stack is a message.
LEMMA OnStackFacts ==
  ASSUME Shape(stack)
  PROVE  OnStack = MessagesOn(stack) /\ OnStack \subseteq Messages
<1>1. stack \in Seq(Frames)
  BY DEF Shape
<1>2. ASSUME NEW i \in 1 .. Len(stack) PROVE stack[i].msg \in Messages \cup {NoMessage}
  <2>1. stack[i] \in Frames
    BY <1>1
  <2> QED
    BY <2>1 DEF Frames
<1> QED
  BY <1>2 DEF OnStack, MessagesOn

\* A step that begins to handle a message.
LEMMA PushStep ==
  ASSUME Shapes, stack # << >>, NEW m \in Messages, m \notin OnStack,
         stack' = Append(stack, Frame("handle", m)), m_bStop' = m_bStop
  PROVE  StackOK' /\ OnStack' = OnStack \cup {m}
<1>1. Shape(stack) /\ m \notin MessagesOn(stack)
  BY OnStackFacts DEF Shapes, QueuesOK, StackOK, Types
<1>2. /\ Shape(stack') /\ MessagesOn(stack') = MessagesOn(stack) \cup {m}
      /\ \A i \in 1 .. Len(stack') : stack'[i].at = "cleanup" => \E k \in 1 .. Len(stack) : stack[k].at = "cleanup"
  BY <1>1, Push
<1>3. OnStack = MessagesOn(stack) /\ OnStack' = MessagesOn(stack')
  BY DEF OnStack, MessagesOn
<1>4. \A i \in 1 .. Len(stack') : stack'[i].at = "cleanup" => m_bStop'
  BY <1>2 DEF Shapes, QueuesOK, StackOK, Types
<1> QED
  BY <1>2, <1>3, <1>4 DEF StackOK

\* A step that is done with the message on top.
LEMMA PopStep ==
  ASSUME Shapes, stack # << >>, stack' = Below, m_bStop' = m_bStop
  PROVE  StackOK' /\ OnStack' = OnStack \ {Top.msg}
<1>1. Shape(stack) /\ stack' = Front(stack) /\ Top = stack[Len(stack)]
  BY Zenon DEF Shapes, Below, Top, QueuesOK, StackOK, Types
<1>2. /\ Shape(stack') /\ MessagesOn(stack') = MessagesOn(stack) \ {Top.msg}
      /\ \A i \in 1 .. Len(stack') : stack'[i].at = "cleanup" => \E k \in 1 .. Len(stack) : stack[k].at = "cleanup"
  BY <1>1, Pop, Zenon
<1>3. OnStack = MessagesOn(stack) /\ OnStack' = MessagesOn(stack')
  BY DEF OnStack, MessagesOn
<1>4. \A i \in 1 .. Len(stack') : stack'[i].at = "cleanup" => m_bStop'
  BY <1>2 DEF Shapes, QueuesOK, StackOK, Types
<1> QED
  BY <1>2, <1>3, <1>4 DEF StackOK

\* A step that goes on with the message on top, or with the main loop.
LEMMA MoveStep ==
  ASSUME Shapes, stack # << >>, NEW at \in Places, stack' = Append(Below, Frame(at, Top.msg)),
         at \in {"handle", "join", "cleanup", "unload"} => Top.msg # NoMessage,
         at \in {"join", "cleanup", "unload"} => Top.msg.kind = "quit",
         m_bStop' = m_bStop \/ m_bStop', at = "cleanup" => m_bStop', m_bStop => m_bStop'
  PROVE  StackOK' /\ OnStack' = OnStack
<1>1. Shape(stack) /\ Below = Front(stack) /\ Top = stack[Len(stack)]
  BY Zenon DEF Shapes, Below, Top, QueuesOK, StackOK, Types
<1>2. /\ Shape(stack') /\ MessagesOn(stack') = MessagesOn(stack)
      /\ \A i \in 1 .. Len(stack') : stack'[i].at = "cleanup" =>
           at = "cleanup" \/ \E k \in 1 .. Len(stack) : stack[k].at = "cleanup"
  BY <1>1, Move, Zenon
<1>3. OnStack = MessagesOn(stack) /\ OnStack' = MessagesOn(stack')
  BY DEF OnStack, MessagesOn
<1>4. \A i \in 1 .. Len(stack') : stack'[i].at = "cleanup" => m_bStop'
  BY <1>2 DEF Shapes, QueuesOK, StackOK, Types
<1> QED
  BY <1>2, <1>3, <1>4 DEF StackOK

\* Where nothing happens to the queues or the stack they remain what they were.
LEMMA SameQueues ==
  ASSUME Shapes, UNCHANGED queues
  PROVE  QueuesOK' /\ Queued' = Queued
<1>1. m_vecMessages' = m_vecMessages /\ m_vecWindowMessages' = m_vecWindowMessages
  BY DEF queues
<1> QED
  BY <1>1, Zenon DEF Shapes, QueuesOK, Queued, StackOK, Types

\* The same of the stack.
LEMMA SameStack ==
  ASSUME Shapes, stack' = stack, m_bStop' = m_bStop
  PROVE  StackOK' /\ OnStack' = OnStack
BY Zenon DEF Shapes, StackOK, OnStack, QueuesOK, Types

\* A new message is queued.
LEMMA EnqueueStep ==
  ASSUME Shapes, NEW m \in Messages, m \notin Queued, Enqueue(m),
         \A x \in Queued : x.from = m.from => x.n < m.n
  PROVE  QueuesOK' /\ Queued' = Queued \cup {m}
<1>1. CASE m.kind = "window"
  <2>1. m_vecWindowMessages' = Append(m_vecWindowMessages, m) /\ m_vecMessages' = m_vecMessages
    BY <1>1 DEF Enqueue
  <2>2. Fifo(m_vecWindowMessages') /\ Range(m_vecWindowMessages') = Range(m_vecWindowMessages) \cup {m}
    BY <2>1, FifoAppend, Zenon DEF Shapes, Queued, QueuesOK, StackOK, Types
  <2> QED
    BY <1>1, <2>1, <2>2, Zenon DEF Shapes, QueuesOK, Queued, StackOK, Types
<1>2. CASE m.kind # "window"
  <2>1. m_vecMessages' = Append(m_vecMessages, m) /\ m_vecWindowMessages' = m_vecWindowMessages
    BY <1>2 DEF Enqueue
  <2>2. Fifo(m_vecMessages') /\ Range(m_vecMessages') = Range(m_vecMessages) \cup {m}
    BY <2>1, FifoAppend, Zenon DEF Shapes, Queued, QueuesOK, StackOK, Types
  <2> QED
    BY <1>2, <2>1, <2>2, Zenon DEF Shapes, QueuesOK, Queued, StackOK, Types
<1> QED
  BY <1>1, <1>2

\* The first message is taken out of one of the queues.
LEMMA TakeWindowStep ==
  ASSUME Shapes, m_vecWindowMessages # << >>, m_vecWindowMessages' = Tail(m_vecWindowMessages),
         m_vecMessages' = m_vecMessages
  PROVE  /\ QueuesOK' /\ Head(m_vecWindowMessages) \in Messages /\ Head(m_vecWindowMessages) \in Queued
         /\ Queued' = Queued \ {Head(m_vecWindowMessages)}
<1> DEFINE h == Head(m_vecWindowMessages)
<1>1. /\ Fifo(m_vecWindowMessages') /\ h \in Range(m_vecWindowMessages) /\ h \in Messages
      /\ Range(m_vecWindowMessages') = Range(m_vecWindowMessages) \ {h}
  BY FifoTail, Zenon DEF Shapes, QueuesOK, StackOK, Types
<1>2. h \notin Range(m_vecMessages)
  BY <1>1, Zenon DEF Shapes, QueuesOK, StackOK, Types
<1> HIDE DEF h
<1>3. Queued' = Queued \ {h}
  BY <1>1, <1>2 DEF Queued
<1>4. QueuesOK'
  BY <1>1, Zenon DEF Shapes, QueuesOK, StackOK, Types
<1> QED
  BY <1>1, <1>3, <1>4 DEF Queued, h

\* The same of the other queue.
LEMMA TakeMessageStep ==
  ASSUME Shapes, m_vecMessages # << >>, m_vecMessages' = Tail(m_vecMessages),
         m_vecWindowMessages' = m_vecWindowMessages
  PROVE  /\ QueuesOK' /\ Head(m_vecMessages) \in Messages /\ Head(m_vecMessages) \in Queued
         /\ Queued' = Queued \ {Head(m_vecMessages)}
<1> DEFINE h == Head(m_vecMessages)
<1>1. /\ Fifo(m_vecMessages') /\ h \in Range(m_vecMessages) /\ h \in Messages
      /\ Range(m_vecMessages') = Range(m_vecMessages) \ {h}
  BY FifoTail, Zenon DEF Shapes, QueuesOK, StackOK, Types
<1>2. h \notin Range(m_vecWindowMessages)
  BY <1>1, Zenon DEF Shapes, QueuesOK, StackOK, Types
<1> HIDE DEF h
<1>3. Queued' = Queued \ {h}
  BY <1>1, <1>2 DEF Queued
<1>4. QueuesOK'
  BY <1>1, Zenon DEF Shapes, QueuesOK, StackOK, Types
<1> QED
  BY <1>1, <1>3, <1>4 DEF Queued, h

\* Messages that only move keep their number.
LEMMA KeepsOnce ==
  ASSUME Once, Placed' = Placed, sent' = sent, Disjoint'
  PROVE  Once'
<1>1. \A t \in Senders : Of(t, Placed)' = Of(t, Placed)
  BY DEF Of
<1> QED
  BY <1>1, Zenon DEF Once, Counted

\* A message that is sent is a new one, and the last of its sender.
LEMMA NewMessage ==
  ASSUME IInv, NEW m \in Messages, m.n = sent[m.from] + 1
  PROVE  /\ m \notin Placed /\ m.from \in Senders
         /\ \A x \in Queued : x.from = m.from => x.n < m.n
<1>1. m.from \in Senders /\ m.n \in Nat /\ sent[m.from] \in Nat
  BY MessengerAssumption DEF Senders, IInv, Shapes, QueuesOK, StackOK, Types
<1>2. m \notin Placed
  BY <1>1 DEF IInv, Once, Counted
<1>3. ASSUME NEW x \in Queued, x.from = m.from PROVE x.n < m.n
  <2>1. x \in Placed
    BY DEF Placed
  <2>2. x \in Messages
    <3>1. m_vecMessages \in Seq(Messages) /\ m_vecWindowMessages \in Seq(Messages)
      BY DEF IInv, Shapes, Fifo, QueuesOK, StackOK, Types
    <3> QED
      BY <3>1, RangeIs DEF Queued
  <2>3. x.n \in Nat
    BY <2>2, MessengerAssumption
  <2> QED
    BY <1>1, <1>3, <2>1, <2>3 DEF IInv, Once, Counted
<1> QED
  BY <1>1, <1>2, <1>3

\* It is counted.
LEMMA AddsOnce ==
  ASSUME IInv, NEW m \in Messages, m.n = sent[m.from] + 1, Placed' = Placed \cup {m},
         sent' = [sent EXCEPT ![m.from] = @ + 1], Disjoint'
  PROVE  Once'
<1>1. m \notin Placed /\ m.from \in Senders
  BY NewMessage
<1>2. sent \in [Senders -> Nat]
  BY DEF IInv, Shapes, QueuesOK, StackOK, Types
<1>3. sent' \in [Senders -> Nat] /\ sent'[m.from] = sent[m.from] + 1
      /\ \A t \in Senders : t # m.from => sent'[t] = sent[t]
  BY <1>1, <1>2
<1>4. Placed \subseteq Messages
  <2>1. m_vecMessages \in Seq(Messages) /\ m_vecWindowMessages \in Seq(Messages)
    BY DEF IInv, Shapes, Fifo, QueuesOK, StackOK, Types
  <2>2. Queued \subseteq Messages
    BY <2>1, RangeIs DEF Queued
  <2>3. OnStack \subseteq Messages
    BY OnStackFacts DEF IInv, Shapes, QueuesOK, StackOK, Types
  <2> QED
    BY <2>2, <2>3 DEF Placed, IInv, Shapes, QueuesOK, StackOK, Types
<1>5. ASSUME NEW x \in Placed' PROVE x.n <= sent'[x.from]
  <2>1. CASE x = m
    BY <2>1, <1>1, <1>2, <1>3
  <2>2. CASE x # m
    <3>1. x \in Placed /\ x \in Messages
      BY <2>2, <1>4
    <3>2. x.from \in Senders /\ x.n \in Nat
      BY <3>1, MessengerAssumption DEF Senders
    <3>3. x.n <= sent[x.from]
      BY <3>1 DEF IInv, Once, Counted
    <3> QED
      BY <1>2, <1>3, <3>2, <3>3
  <2> QED
    BY <2>1, <2>2
<1>6. ASSUME NEW t \in Senders
      PROVE  IsFiniteSet(Of(t, Placed')) /\ Cardinality(Of(t, Placed')) = sent'[t]
  <2>1. IsFiniteSet(Of(t, Placed)) /\ Cardinality(Of(t, Placed)) = sent[t]
    BY DEF IInv, Once, Counted
  <2>2. CASE t = m.from
    <3>1. Of(t, Placed') = Of(t, Placed) \cup {m} /\ m \notin Of(t, Placed)
      BY <1>1, <2>2 DEF Of
    <3>2. /\ IsFiniteSet(Of(t, Placed) \cup {m})
          /\ Cardinality(Of(t, Placed) \cup {m}) = Cardinality(Of(t, Placed)) + 1
      BY <2>1, <3>1, FS_AddElement, Zenon
    <3> QED
      BY <2>1, <2>2, <3>1, <3>2, <1>3, Zenon
  <2>3. CASE t # m.from
    <3>1. Of(t, Placed') = Of(t, Placed)
      BY <2>3 DEF Of
    <3> QED
      BY <2>1, <2>3, <3>1, <1>3
  <2> QED
    BY <2>2, <2>3
<1> QED
  BY <1>5, <1>6, Zenon DEF Once, Counted, Of
\* The main loop alone is a stack without messages.
LEMMA MainLoopFacts ==
  /\ Shape(MainLoop) /\ MessagesOn(MainLoop) = {}
  /\ \A i \in 1 .. Len(MainLoop) : MainLoop[i].at # "cleanup"
<1>1. Frame("window", NoMessage) \in Frames
  BY FrameFacts DEF Places
<1>2. MainLoop \in Seq(Frames) /\ Len(MainLoop) = 1 /\ MainLoop[1] = Frame("window", NoMessage)
  BY <1>1 DEF MainLoop
<1>3. MainLoop[1].at = "window" /\ MainLoop[1].msg = NoMessage
  BY <1>2 DEF Frame
<1> QED
  BY <1>2, <1>3 DEF Shape, MessagesOn
-----------------------------------------------------------------------------
(* The steps of the other threads *)

\* At the start there are no messages.
LEMMA InitOK == Init => IInv
<1> SUFFICES ASSUME Init PROVE IInv
  OBVIOUS
<1>1. /\ m_vecMessages = << >> /\ m_vecWindowMessages = << >> /\ m_bStop = FALSE
      /\ stack = <<Frame("window", NoMessage)>>
      /\ waitEvent = {} /\ pc = [t \in Threads |-> "run"] /\ msg = [t \in Threads |-> NoMessage]
      /\ sent = [t \in Senders |-> 0] /\ handled = {} /\ dropped = {} /\ abandoned = {}
  BY DEF Init, MainLoop, Senders
<1>2. << >> \in Seq(Messages) /\ Range(<< >>) = {} /\ Fifo(<< >>)
  BY DEF Range, Fifo, IsInjective
<1>3. QueuesOK /\ Queued = {}
  BY <1>1, <1>2, Zenon DEF QueuesOK, Queued
<1>4. StackOK /\ OnStack = {}
  <2>1. stack = MainLoop
    BY <1>1 DEF MainLoop
  <2> QED
    BY <2>1, MainLoopFacts, Zenon DEF StackOK, OnStack, MessagesOn
<1>5. Types
  BY <1>1 DEF Types
<1>6. Disjoint /\ Placed = {}
  BY <1>1, <1>3, <1>4 DEF Disjoint, Placed
<1>7. Counted
  <2>1. \A t \in Senders : Of(t, {}) = {}
    BY DEF Of
  <2>2. IsFiniteSet({}) /\ Cardinality({}) = 0
    BY FS_EmptySet
  <2>3. \A t \in Senders : sent[t] = 0
    BY <1>1
  <2> QED
    BY <1>6, <2>1, <2>2, <2>3, Zenon DEF Counted
<1>8. Woken
  BY <1>1 DEF Woken
<1> QED
  BY <1>3, <1>4, <1>5, <1>6, <1>7, <1>8, Zenon DEF IInv, Shapes, Once

\* A message sent is queued, or dropped when the program has stopped.
LEMMA SendSafe ==
  ASSUME IInv, NEW t \in Threads, NEW m \in Messages, SendMessage(t, m)
  PROVE  IInv'
<1>1. /\ pc[t] = "run" /\ m.from = t /\ m.n = sent[m.from] + 1
      /\ sent' = [sent EXCEPT ![m.from] = @ + 1]
      /\ stack' = stack /\ m_bStop' = m_bStop /\ waitEvent' = waitEvent
      /\ handled' = handled /\ abandoned' = abandoned
  BY DEF SendMessage, main
<1>2. /\ m \notin Placed /\ m.from \in Senders
      /\ \A x \in Queued : x.from = m.from => x.n < m.n
  BY <1>1, NewMessage
<1>3. Shapes /\ StackOK' /\ OnStack' = OnStack
  BY <1>1, SameStack DEF IInv
<1>4. sent \in [Senders -> Nat] => sent' \in [Senders -> Nat]
  BY <1>1, <1>2
<1>5. CASE m_bStop
  <2>1. dropped' = dropped \cup {m} /\ UNCHANGED <<queues, pc, msg>>
    BY <1>5 DEF SendMessage
  <2>2. QueuesOK' /\ Queued' = Queued
    BY <1>3, <2>1, SameQueues
  <2>3. Types'
    BY <1>1, <1>3, <1>4, <2>1 DEF Types, Shapes
  <2>4. Disjoint' /\ Placed' = Placed \cup {m}
    BY <1>1, <1>2, <1>3, <2>1, <2>2 DEF Disjoint, Placed, IInv, Once
  <2>5. Woken'
    BY <1>1, <1>3, <1>5, <2>1, <2>2 DEF Woken, IInv
  <2> QED
    BY <1>1, <1>3, <2>2, <2>3, <2>4, <2>5, AddsOnce DEF IInv, Shapes
<1>6. CASE ~m_bStop
  <2>1. /\ Enqueue(m) /\ dropped' = dropped
        /\ IF m.wait THEN pc' = [pc EXCEPT ![t] = "queued"] /\ msg' = [msg EXCEPT ![t] = m]
           ELSE UNCHANGED <<pc, msg>>
    BY <1>6 DEF SendMessage
  <2>2. QueuesOK' /\ Queued' = Queued \cup {m}
    BY <1>2, <1>3, <2>1, EnqueueStep DEF Placed
  <2>3. Types'
    BY <1>1, <1>3, <1>4, <2>1 DEF Types, Shapes
  <2>4. Disjoint' /\ Placed' = Placed \cup {m}
    BY <1>1, <1>2, <1>3, <2>1, <2>2 DEF Disjoint, Placed, IInv, Once
  <2>5. ASSUME NEW u \in Threads, pc'[u] \in {"queued", "wait"}
        PROVE  /\ msg'[u] \in Messages /\ msg'[u].from = u /\ msg'[u].wait
               /\ msg'[u] \in (waitEvent \cup Queued \cup OnStack \cup abandoned)'
    <3>1. CASE u = t /\ m.wait
      BY <1>1, <1>3, <2>1, <2>2, <3>1 DEF Shapes, Types
    <3>2. CASE ~(u = t /\ m.wait)
      <4>1. pc'[u] = pc[u] /\ msg'[u] = msg[u]
        BY <1>3, <2>1, <3>2 DEF Shapes, Types
      <4> QED
        BY <1>1, <1>3, <2>2, <2>5, <4>1 DEF IInv, Woken
    <3> QED
      BY <3>1, <3>2
  <2>6. Woken'
    BY <1>1, <2>1, <2>5 DEF Woken, IInv
  <2> QED
    BY <1>1, <1>3, <2>2, <2>3, <2>4, <2>6, AddsOnce DEF IInv, Shapes
<1> QED
  BY <1>5, <1>6

\* The messages stay where they are: only the senders move.
LEMMA Stay ==
  ASSUME IInv, UNCHANGED <<queues, stack, m_bStop, sent, fate>>
  PROVE  QueuesOK' /\ StackOK' /\ Once' /\ Queued' = Queued /\ OnStack' = OnStack
<1>1. /\ UNCHANGED queues /\ stack' = stack /\ m_bStop' = m_bStop /\ sent' = sent
      /\ handled' = handled /\ dropped' = dropped /\ abandoned' = abandoned
  BY DEF fate
<1>2. QueuesOK' /\ Queued' = Queued /\ StackOK' /\ OnStack' = OnStack
  BY <1>1, SameQueues, SameStack DEF IInv
<1>3. Disjoint' /\ Placed' = Placed
  BY <1>1, <1>2 DEF Disjoint, Placed, IInv, Once
<1> QED
  BY <1>1, <1>2, <1>3, KeepsOnce DEF IInv

\* A sender that waits still has its message where it was.
LEMMA WaitSafe ==
  ASSUME IInv, NEW t \in Threads, Wait(t)
  PROVE  IInv'
<1>1. /\ UNCHANGED <<queues, stack, m_bStop, sent, fate, waitEvent, msg>>
      /\ pc[t] = "queued" /\ pc' = [pc EXCEPT ![t] = "wait"]
  BY DEF Wait, main
<1>2. QueuesOK' /\ StackOK' /\ Once' /\ Queued' = Queued /\ OnStack' = OnStack
  BY <1>1, Stay
<1>3. Types'
  BY <1>1 DEF Types, Shapes, IInv, fate
<1>4. \A u \in Threads : pc'[u] \in {"queued", "wait"} => pc[u] \in {"queued", "wait"}
  BY <1>1 DEF IInv, Shapes, Types
<1>5. Woken'
  BY <1>1, <1>2, <1>4 DEF Woken, IInv, fate
<1> QED
  BY <1>2, <1>3, <1>5 DEF IInv, Shapes

\* A sender that goes on takes its own event only.
LEMMA ReturnSafe ==
  ASSUME IInv, NEW t \in Threads, Return(t)
  PROVE  IInv'
<1>1. /\ UNCHANGED <<queues, stack, m_bStop, sent, fate>>
      /\ pc[t] = "wait" /\ pc' = [pc EXCEPT ![t] = "run"] /\ msg' = [msg EXCEPT ![t] = NoMessage]
      /\ waitEvent' = waitEvent \ {msg[t]}
  BY DEF Return, main
<1>2. QueuesOK' /\ StackOK' /\ Once' /\ Queued' = Queued /\ OnStack' = OnStack
  BY <1>1, Stay
<1>3. Types'
  BY <1>1 DEF Types, Shapes, IInv, fate
<1>4. ASSUME NEW u \in Threads, pc'[u] \in {"queued", "wait"}
      PROVE  pc[u] \in {"queued", "wait"} /\ msg'[u] = msg[u] /\ msg[u] # msg[t]
  <2>1. u # t /\ pc[u] \in {"queued", "wait"} /\ msg'[u] = msg[u]
    BY <1>1, <1>4 DEF IInv, Shapes, Types
  <2>2. msg[u].from = u /\ msg[t].from = t
    BY <1>1, <2>1 DEF IInv, Woken
  <2> QED
    BY <2>1, <2>2
<1>5. Woken'
  BY <1>1, <1>2, <1>4 DEF Woken, IInv, fate
<1> QED
  BY <1>2, <1>3, <1>5 DEF IInv, Shapes

\* The graphics lock has to do with none of this.
LEMMA LeaveGraphicsSafe ==
  ASSUME IInv, NEW t \in Threads, LeaveGraphics(t)
  PROVE  IInv'
<1>1. UNCHANGED <<queues, stack, m_bStop, sent, fate, waitEvent, msg, pc>>
  BY DEF LeaveGraphics, main
<1>2. QueuesOK' /\ StackOK' /\ Once' /\ Queued' = Queued /\ OnStack' = OnStack
  BY <1>1, Stay
<1>3. Types' /\ Woken'
  BY <1>1, <1>2 DEF Types, Shapes, IInv, fate, Woken
<1> QED
  BY <1>2, <1>3 DEF IInv, Shapes

\* A thread that ends waits for nothing.
LEMMA EndSafe ==
  ASSUME IInv, NEW t \in Threads, End(t)
  PROVE  IInv'
<1>1. /\ UNCHANGED <<queues, stack, m_bStop, sent, fate, waitEvent, msg>>
      /\ pc' = [pc EXCEPT ![t] = "end"]
  BY DEF End, main
<1>2. QueuesOK' /\ StackOK' /\ Once' /\ Queued' = Queued /\ OnStack' = OnStack
  BY <1>1, Stay
<1>3. Types'
  BY <1>1 DEF Types, Shapes, IInv, fate
<1>4. \A u \in Threads : pc'[u] \in {"queued", "wait"} => pc[u] = pc'[u]
  BY <1>1 DEF IInv, Shapes, Types
<1>5. Woken'
  BY <1>1, <1>2, <1>4 DEF Woken, IInv, fate
<1> QED
  BY <1>2, <1>3, <1>5 DEF IInv, Shapes
-----------------------------------------------------------------------------
(* The steps of the main thread *)

\* A message goes from its queue onto the stack, or the loop goes on.
LEMMA TakenSafe ==
  ASSUME IInv, NEW m \in Queued, QueuesOK', StackOK', m_bStop' = m_bStop,
         Queued' = Queued \ {m}, OnStack' = OnStack \cup {m},
         UNCHANGED <<waitEvent, threads, fate>>
  PROVE  IInv'
<1>1. /\ waitEvent' = waitEvent /\ pc' = pc /\ msg' = msg /\ sent' = sent
      /\ handled' = handled /\ dropped' = dropped /\ abandoned' = abandoned
  BY DEF threads, fate
<1>2. Disjoint' /\ Placed' = Placed
  BY <1>1 DEF Disjoint, Placed, IInv, Once
<1>3. Types' /\ Woken'
  BY <1>1 DEF Types, Shapes, IInv, Woken
<1> QED
  BY <1>1, <1>2, <1>3, KeepsOnce DEF IInv, Shapes

\* The main thread goes on within a message, or the program stops.
LEMMA MovedSafe ==
  ASSUME IInv, QueuesOK', StackOK', Queued' = Queued, OnStack' = OnStack,
         m_bStop' \in BOOLEAN, m_bStop => m_bStop',
         UNCHANGED <<waitEvent, threads, fate>>
  PROVE  IInv'
<1>1. /\ waitEvent' = waitEvent /\ pc' = pc /\ msg' = msg /\ sent' = sent
      /\ handled' = handled /\ dropped' = dropped /\ abandoned' = abandoned
  BY DEF threads, fate
<1>2. Disjoint' /\ Placed' = Placed
  BY <1>1 DEF Disjoint, Placed, IInv, Once
<1>3. Types' /\ Woken'
  BY <1>1 DEF Types, Shapes, IInv, Woken
<1> QED
  BY <1>1, <1>2, <1>3, KeepsOnce DEF IInv, Shapes

\* A message of the windows is taken off its queue and handled.
LEMMA ProcessWindowMessagesSafe ==
  ASSUME IInv, ProcessWindowMessages
  PROVE  IInv'
<1>1. /\ stack # << >> /\ Shapes /\ m_bStop' = m_bStop /\ m_bStop \in BOOLEAN
      /\ m_vecMessages' = m_vecMessages /\ UNCHANGED <<waitEvent, threads, fate>>
  BY DEF ProcessWindowMessages, At, IInv, Shapes, Types
<1>2. CASE m_vecWindowMessages = << >>
  <2>1. stack' = Append(Below, Frame("message", Top.msg)) /\ UNCHANGED queues
    BY <1>1, <1>2 DEF ProcessWindowMessages, queues
  <2>2. "message" \in Places
    BY DEF Places
  <2>3. StackOK' /\ OnStack' = OnStack
    BY <1>1, <2>1, <2>2, MoveStep
  <2> QED
    BY <1>1, <2>1, <2>3, SameQueues, MovedSafe
<1>3. CASE m_vecWindowMessages # << >>
  <2> DEFINE h == Head(m_vecWindowMessages)
  <2>1. /\ m_vecWindowMessages' = Tail(m_vecWindowMessages)
        /\ stack' = Append(stack, Frame("handle", h))
    BY <1>3 DEF ProcessWindowMessages
  <2>2. QueuesOK' /\ h \in Messages /\ h \in Queued /\ Queued' = Queued \ {h}
    BY <1>1, <1>3, <2>1, TakeWindowStep
  <2> HIDE DEF h
  <2>3. StackOK' /\ OnStack' = OnStack \cup {h}
    BY <1>1, <2>1, <2>2, PushStep DEF IInv, Once, Disjoint
  <2> QED
    BY <1>1, <2>2, <2>3, TakenSafe
<1> QED
  BY <1>2, <1>3

\* So is any other message.
LEMMA ProcessMessagesSafe ==
  ASSUME IInv, ProcessMessages
  PROVE  IInv'
<1>1. /\ stack # << >> /\ Shapes /\ m_bStop' = m_bStop /\ m_bStop \in BOOLEAN
      /\ m_vecWindowMessages' = m_vecWindowMessages /\ UNCHANGED <<waitEvent, threads, fate>>
  BY DEF ProcessMessages, At, IInv, Shapes, Types
<1>2. CASE m_vecMessages = << >>
  <2>1. stack' = Append(Below, Frame("render", Top.msg)) /\ UNCHANGED queues
    BY <1>1, <1>2 DEF ProcessMessages, queues
  <2>2. "render" \in Places
    BY DEF Places
  <2>3. StackOK' /\ OnStack' = OnStack
    BY <1>1, <2>1, <2>2, MoveStep
  <2> QED
    BY <1>1, <2>1, <2>3, SameQueues, MovedSafe
<1>3. CASE m_vecMessages # << >>
  <2> DEFINE h == Head(m_vecMessages)
  <2>1. /\ m_vecMessages' = Tail(m_vecMessages)
        /\ stack' = Append(stack, Frame("handle", h))
    BY <1>3 DEF ProcessMessages
  <2>2. QueuesOK' /\ h \in Messages /\ h \in Queued /\ Queued' = Queued \ {h}
    BY <1>1, <1>3, <2>1, TakeMessageStep
  <2> HIDE DEF h
  <2>3. StackOK' /\ OnStack' = OnStack \cup {h}
    BY <1>1, <2>1, <2>2, PushStep DEF IInv, Once, Disjoint
  <2> QED
    BY <1>1, <2>2, <2>3, TakenSafe
<1> QED
  BY <1>2, <1>3

\* A message that has been handled wakes its sender.
LEMMA DoneSafe ==
  ASSUME IInv, stack # << >>, Top.msg # NoMessage, Done(Top.msg, Below),
         UNCHANGED <<queues, m_bStop, threads, dropped, abandoned>>
  PROVE  IInv'
<1> DEFINE m == Top.msg
<1>1. /\ stack' = Below /\ handled' = handled \cup {m}
      /\ waitEvent' = IF m.from # "main" /\ m.wait THEN waitEvent \cup {m} ELSE waitEvent
      /\ pc' = pc /\ msg' = msg /\ sent' = sent /\ m_bStop' = m_bStop
      /\ dropped' = dropped /\ abandoned' = abandoned
  BY DEF Done, threads
<1>2. m \in Messages /\ m \in OnStack /\ Shapes
  BY TopFacts DEF IInv
<1>3. StackOK' /\ OnStack' = OnStack \ {m}
  BY <1>1, <1>2, PopStep
<1>4. QueuesOK' /\ Queued' = Queued
  BY <1>2, SameQueues
<1> HIDE DEF m
<1>5. Disjoint' /\ Placed' = Placed
  BY <1>1, <1>2, <1>3, <1>4 DEF Disjoint, Placed, IInv, Once
<1>6. Types'
  BY <1>1, <1>2 DEF Types, Shapes, IInv
<1>7. ASSUME NEW t \in Threads, pc'[t] \in {"queued", "wait"}
      PROVE  /\ msg'[t] \in Messages /\ msg'[t].from = t /\ msg'[t].wait
             /\ msg'[t] \in (waitEvent \cup Queued \cup OnStack \cup abandoned)'
  <2>1. /\ msg[t] \in Messages /\ msg[t].from = t /\ msg[t].wait
        /\ msg[t] \in waitEvent \cup Queued \cup OnStack \cup abandoned
    BY <1>1, <1>7 DEF IInv, Woken
  <2>2. t # "main"
    BY MessengerAssumption
  <2> QED
    BY <1>1, <1>3, <1>4, <2>1, <2>2
<1>8. waitEvent' \subseteq waitEvent \cup {m}
  BY <1>1
<1>9. m \notin dropped
  BY <1>2 DEF IInv, Once, Disjoint
<1>10. Woken'
  BY <1>1, <1>7, <1>8, <1>9 DEF Woken, IInv
<1> QED
  BY <1>1, <1>3, <1>4, <1>5, <1>6, <1>10, KeepsOnce DEF IInv, Shapes

\* A message that takes no time is done.
LEMMA ActSafe ==
  ASSUME IInv, Act
  PROVE  IInv'
<1>1. stack # << >> /\ Top.at = "handle" /\ Done(Top.msg, Below)
      /\ UNCHANGED <<queues, m_bStop, threads, dropped, abandoned>>
  BY DEF Act, At
<1>2. Top.msg # NoMessage
  BY <1>1, TopFacts DEF IInv
<1> QED
  BY <1>1, <1>2, DoneSafe

\* A dialog is opened, or done at once when the program has stopped.
LEMMA DoModalSafe ==
  ASSUME IInv, DoModal
  PROVE  IInv'
<1>1. stack # << >> /\ Top.at = "handle" /\ UNCHANGED <<queues, m_bStop, threads, dropped, abandoned>>
  BY DEF DoModal, At
<1>2. Top.msg # NoMessage /\ Shapes /\ m_bStop \in BOOLEAN
  BY <1>1, TopFacts DEF IInv, Shapes, Types
<1>3. CASE m_bStop
  <2>1. Done(Top.msg, Below)
    BY <1>3 DEF DoModal
  <2> QED
    BY <1>1, <1>2, <2>1, DoneSafe
<1>4. CASE ~m_bStop
  <2>1. stack' = Append(Below, Frame("window", Top.msg)) /\ UNCHANGED <<waitEvent, fate>>
    BY <1>1, <1>4 DEF DoModal, fate
  <2>2. "window" \in Places
    BY DEF Places
  <2>3. StackOK' /\ OnStack' = OnStack
    BY <1>1, <1>2, <2>1, <2>2, MoveStep
  <2> QED
    BY <1>1, <1>2, <2>1, <2>3, SameQueues, MovedSafe
<1> QED
  BY <1>2, <1>3, <1>4

\* A loop goes on, or it ends and with it its message, or the program.
LEMMA RenderSafe ==
  ASSUME IInv, Render
  PROVE  IInv'
<1>1. stack # << >> /\ UNCHANGED <<queues, m_bStop, threads, dropped, abandoned>>
  BY DEF Render, At
<1>2. Shapes /\ m_bStop \in BOOLEAN
  BY DEF IInv, Shapes, Types
<1>3. CASE stack' = Append(Below, Frame("window", Top.msg)) /\ UNCHANGED <<handled, waitEvent>>
  <2>1. "window" \in Places
    BY DEF Places
  <2>2. StackOK' /\ OnStack' = OnStack
    BY <1>1, <1>2, <1>3, <2>1, MoveStep
  <2>3. UNCHANGED fate
    BY <1>1, <1>3 DEF fate
  <2> QED
    BY <1>1, <1>2, <1>3, <2>2, <2>3, SameQueues, MovedSafe
<1>4. CASE Top.msg # NoMessage /\ Done(Top.msg, Below)
  BY <1>1, <1>4, DoneSafe
<1>5. CASE Top.msg = NoMessage /\ stack' = << >> /\ UNCHANGED <<handled, waitEvent>>
  <2>1. StackOK' /\ OnStack' = OnStack
    <3>1. Shape(stack) /\ stack \in Seq(Frames)
      BY <1>2 DEF Shapes, StackOK, Shape
    <3>2. Len(stack) \in 1 .. Len(stack) /\ Top = stack[Len(stack)] /\ Len(stack) \in Nat
      BY <1>1, <3>1, FrontFacts DEF Top
    <3>3. Len(stack) = 1
      BY <1>5, <3>1, <3>2 DEF Shape
    <3>4. OnStack = {}
      BY <1>5, <3>2, <3>3 DEF OnStack
    <3>5. stack' \in Seq(Frames) /\ Len(stack') = 0
      BY <1>5
    <3>6. OnStack' = {}
      BY <3>5 DEF OnStack
    <3>7. StackOK'
      BY <3>5 DEF StackOK, Shape
    <3> QED
      BY <3>4, <3>6, <3>7
  <2>2. UNCHANGED fate
    BY <1>1, <1>5 DEF fate
  <2> QED
    BY <1>1, <1>2, <1>5, <2>1, <2>2, SameQueues, MovedSafe
<1> QED
  BY <1>3, <1>4, <1>5 DEF Render

\* The main thread handles its own message on the spot, queues it or, stopped, drops it.
LEMMA SendHereSafe ==
  ASSUME IInv, NEW m \in Messages, SendHere(m)
  PROVE  IInv'
<1>1. /\ stack # << >> /\ m.n = sent[m.from] + 1 /\ m.from = "main"
      /\ sent' = [sent EXCEPT ![m.from] = @ + 1]
      /\ m_bStop' = m_bStop /\ waitEvent' = waitEvent /\ pc' = pc /\ msg' = msg
      /\ handled' = handled /\ abandoned' = abandoned
  BY DEF SendHere, At, fate
<1>2. /\ m \notin Placed /\ m.from \in Senders
      /\ \A x \in Queued : x.from = m.from => x.n < m.n
  BY <1>1, NewMessage
<1>3. Shapes
  BY DEF IInv
<1>4. dropped' \subseteq Messages => Types'
  BY <1>1, <1>2, <1>3 DEF Shapes, Types
<1>5. dropped \subseteq Messages
  BY <1>3 DEF Shapes, Types
<1>6. CASE m.wait
  <2>1. stack' = Append(stack, Frame("handle", m)) /\ UNCHANGED queues /\ dropped' = dropped
    BY <1>6 DEF SendHere
  <2>2. StackOK' /\ OnStack' = OnStack \cup {m}
    BY <1>1, <1>2, <1>3, <2>1, PushStep DEF Placed
  <2>3. QueuesOK' /\ Queued' = Queued
    BY <1>3, <2>1, SameQueues
  <2>4. Disjoint' /\ Placed' = Placed \cup {m}
    BY <1>1, <1>2, <2>1, <2>2, <2>3 DEF Disjoint, Placed, IInv, Once
  <2>5. Woken'
    BY <1>1, <2>1, <2>2, <2>3 DEF Woken, IInv
  <2> QED
    BY <1>1, <1>4, <1>5, <2>1, <2>2, <2>3, <2>4, <2>5, AddsOnce DEF IInv, Shapes
<1>7. CASE ~m.wait /\ ~m_bStop
  <2>1. Enqueue(m) /\ stack' = stack /\ dropped' = dropped
    BY <1>7 DEF SendHere
  <2>2. QueuesOK' /\ Queued' = Queued \cup {m}
    BY <1>2, <1>3, <2>1, EnqueueStep DEF Placed
  <2>3. StackOK' /\ OnStack' = OnStack
    BY <1>1, <1>3, <2>1, SameStack
  <2>4. Disjoint' /\ Placed' = Placed \cup {m}
    BY <1>1, <1>2, <2>1, <2>2, <2>3 DEF Disjoint, Placed, IInv, Once
  <2>5. Woken'
    BY <1>1, <2>1, <2>2, <2>3 DEF Woken, IInv
  <2> QED
    BY <1>1, <1>4, <1>5, <2>1, <2>2, <2>3, <2>4, <2>5, AddsOnce DEF IInv, Shapes
<1>8. CASE ~m.wait /\ m_bStop
  <2>1. UNCHANGED queues /\ stack' = stack /\ dropped' = dropped \cup {m}
    BY <1>8 DEF SendHere
  <2>2. QueuesOK' /\ Queued' = Queued
    BY <1>3, <2>1, SameQueues
  <2>3. StackOK' /\ OnStack' = OnStack
    BY <1>1, <1>3, <2>1, SameStack
  <2>4. Disjoint' /\ Placed' = Placed \cup {m}
    BY <1>1, <1>2, <2>1, <2>2, <2>3 DEF Disjoint, Placed, IInv, Once
  <2>5. Woken'
    BY <1>1, <1>8, <2>1, <2>2, <2>3 DEF Woken, IInv
  <2>6. dropped' \subseteq Messages
    BY <1>5, <2>1
  <2> QED
    BY <1>1, <1>4, <2>2, <2>3, <2>4, <2>5, <2>6, AddsOnce DEF IInv, Shapes
<1> QED
  BY <1>6, <1>7, <1>8

\* Closing a dialog moves no message.
LEMMA CloseSafe ==
  ASSUME IInv, NEW m \in m_active, Close(m)
  PROVE  IInv'
<1>1. UNCHANGED <<queues, stack, m_bStop, sent, fate>> /\ UNCHANGED <<waitEvent, threads, fate>>
      /\ m_bStop' \in BOOLEAN
  BY DEF Close, threads, IInv, Shapes, Types
<1>2. QueuesOK' /\ StackOK' /\ Queued' = Queued /\ OnStack' = OnStack
  BY <1>1, Stay
<1> QED
  BY <1>1, <1>2, MovedSafe

\* An exception abandons what is on the stack.
LEMMA ThrowSafe ==
  ASSUME IInv, Throw
  PROVE  IInv'
<1>1. /\ stack # << >> /\ (stack' = MainLoop \/ stack' = << >>)
      /\ abandoned' = abandoned \cup {stack[i].msg : i \in 2 .. Len(stack)}
      /\ UNCHANGED queues
      /\ pc' = pc /\ msg' = msg /\ sent' = sent /\ m_bStop' = m_bStop
      /\ waitEvent' = waitEvent /\ handled' = handled /\ dropped' = dropped
  BY DEF Throw, At, threads
<1>2. Shapes
  BY DEF IInv
<1>3. {stack[i].msg : i \in 2 .. Len(stack)} = OnStack
  <2>1. stack \in Seq(Frames) /\ \A i \in 1 .. Len(stack) : stack[i].msg = NoMessage <=> i = 1
    BY <1>2 DEF Shapes, StackOK, Shape
  <2>2. \A i \in 1 .. Len(stack) : i # 1 <=> i \in 2 .. Len(stack)
    BY <2>1
  <2>3. \A i \in 2 .. Len(stack) : i \in 1 .. Len(stack)
    BY <2>1
  <2> QED
    BY <2>1, <2>2, <2>3 DEF OnStack
<1>4. StackOK' /\ OnStack' = {}
  <2>1. CASE stack' = MainLoop
    BY <2>1, MainLoopFacts, Zenon DEF StackOK, OnStack, MessagesOn
  <2>2. CASE stack' = << >>
    <3>1. stack' \in Seq(Frames) /\ Len(stack') = 0
      BY <2>2
    <3> QED
      BY <3>1 DEF StackOK, Shape, OnStack
  <2> QED
    BY <1>1, <2>1, <2>2
<1>5. QueuesOK' /\ Queued' = Queued
  BY <1>1, <1>2, SameQueues
<1>6. OnStack \subseteq Messages
  BY <1>2, OnStackFacts DEF Shapes, StackOK
<1>7. Disjoint' /\ Placed' = Placed
  BY <1>1, <1>3, <1>4, <1>5 DEF Disjoint, Placed, IInv, Once
<1>8. Types'
  BY <1>1, <1>2, <1>3, <1>6 DEF Types, Shapes
<1>9. Woken'
  BY <1>1, <1>3, <1>5 DEF Woken, IInv
<1> QED
  BY <1>1, <1>4, <1>5, <1>7, <1>8, <1>9, KeepsOnce DEF IInv, Shapes

\* Stop begins.
LEMMA StopSafe ==
  ASSUME IInv, Stop
  PROVE  IInv'
<1>1. /\ stack # << >> /\ Top.at = "handle" /\ Top.msg.kind = "quit"
      /\ stack' = Append(Below, Frame("join", Top.msg))
      /\ UNCHANGED queues /\ m_bStop' = m_bStop /\ UNCHANGED <<waitEvent, threads, fate>>
  BY DEF Stop, At
<1>2. Shapes /\ m_bStop \in BOOLEAN /\ Top.msg # NoMessage /\ "join" \in Places
  BY <1>1, TopFacts DEF IInv, Shapes, Types, Places
<1>3. StackOK' /\ OnStack' = OnStack
  BY <1>1, <1>2, MoveStep
<1> QED
  BY <1>1, <1>2, <1>3, SameQueues, MovedSafe

\* The program has stopped.
LEMMA SetStopSafe ==
  ASSUME IInv, SetStop
  PROVE  IInv'
<1>1. /\ stack # << >> /\ Top.at = "join"
      /\ stack' = Append(Below, Frame("cleanup", Top.msg))
      /\ UNCHANGED queues /\ m_bStop' = TRUE /\ UNCHANGED <<waitEvent, threads, fate>>
  BY DEF SetStop, At
<1>2. Shapes /\ Top.msg # NoMessage /\ Top.msg.kind = "quit" /\ "cleanup" \in Places
  BY <1>1, TopFacts DEF IInv, Places
<1>3. StackOK' /\ OnStack' = OnStack
  BY <1>1, <1>2, MoveStep
<1> QED
  BY <1>1, <1>2, <1>3, SameQueues, MovedSafe

\* What is queued is dropped, and those who wait for it are woken.
LEMMA CleanupSafe ==
  ASSUME IInv, Cleanup
  PROVE  IInv'
<1>1. /\ stack # << >> /\ Top.at = "cleanup" /\ stack' = Append(Below, Frame("unload", Top.msg))
      /\ m_vecMessages' = << >> /\ m_vecWindowMessages' = << >>
      /\ dropped' = dropped \cup Queued
      /\ waitEvent' = waitEvent \cup {m \in Queued : m.wait}
      /\ pc' = pc /\ msg' = msg /\ sent' = sent /\ m_bStop' = m_bStop
      /\ handled' = handled /\ abandoned' = abandoned
  BY DEF Cleanup, At, threads
<1>2. /\ Shapes /\ Top.msg # NoMessage /\ Top.msg.kind = "quit" /\ m_bStop /\ "unload" \in Places
  BY <1>1, TopFacts DEF IInv, Places
<1>3. StackOK' /\ OnStack' = OnStack
  BY <1>1, <1>2, MoveStep
<1>4. QueuesOK' /\ Queued' = {}
  <2>1. << >> \in Seq(Messages) /\ Range(<< >>) = {} /\ Fifo(<< >>)
    BY DEF Range, Fifo, IsInjective
  <2> QED
    BY <1>1, <2>1, Zenon DEF QueuesOK, Queued
<1>5. Queued \subseteq Messages
  <2>1. m_vecMessages \in Seq(Messages) /\ m_vecWindowMessages \in Seq(Messages)
    BY <1>2 DEF Shapes, QueuesOK, Fifo
  <2> QED
    BY <2>1, RangeIs DEF Queued
<1>6. Disjoint' /\ Placed' = Placed
  BY <1>1, <1>3, <1>4 DEF Disjoint, Placed, IInv, Once
<1>7. Types'
  BY <1>1, <1>2, <1>5 DEF Types, Shapes
<1>8. Woken'
  BY <1>1, <1>2, <1>3, <1>4 DEF Woken, IInv
<1> QED
  BY <1>1, <1>3, <1>4, <1>6, <1>7, <1>8, KeepsOnce DEF IInv, Shapes

\* Stop has been handled.
LEMMA UnloadSafe ==
  ASSUME IInv, Unload
  PROVE  IInv'
<1>1. stack # << >> /\ Top.at = "unload" /\ Done(Top.msg, Below)
      /\ UNCHANGED <<queues, m_bStop, threads, dropped, abandoned>>
  BY DEF Unload, At
<1>2. Top.msg # NoMessage
  BY <1>1, TopFacts DEF IInv
<1> QED
  BY <1>1, <1>2, DoneSafe
-----------------------------------------------------------------------------
\* Every step keeps the invariant.
LEMMA StepOK == IInv /\ [Next]_vars => IInv'
<1> SUFFICES ASSUME IInv, [Next]_vars PROVE IInv'
  OBVIOUS
<1>1. ASSUME NEW t \in Threads, Wait(t) \/ Return(t) \/ LeaveGraphics(t) \/ End(t) PROVE IInv'
  BY <1>1, WaitSafe, ReturnSafe, LeaveGraphicsSafe, EndSafe
<1>2. ASSUME NEW t \in Threads, NEW m \in Messages, SendMessage(t, m) PROVE IInv'
  BY <1>2, SendSafe
<1>3. ASSUME NEW m \in Messages, SendHere(m) PROVE IInv'
  BY <1>3, SendHereSafe
<1>4. ASSUME NEW m \in m_active, Close(m) PROVE IInv'
  BY <1>4, CloseSafe
<1>5. CASE MainThread
  BY <1>5, ProcessWindowMessagesSafe, ProcessMessagesSafe, ActSafe, DoModalSafe, RenderSafe,
     StopSafe, SetStopSafe, CleanupSafe, UnloadSafe DEF MainThread
<1>6. CASE Throw
  BY <1>6, ThrowSafe
<1>7. CASE UNCHANGED vars
  <2>1. UNCHANGED <<queues, stack, m_bStop, sent, fate>> /\ UNCHANGED <<waitEvent, threads, fate>>
        /\ m_bStop' \in BOOLEAN
    BY <1>7 DEF vars, main, threads, IInv, Shapes, Types
  <2> QED
    BY <2>1, Stay, MovedSafe
<1> QED
  BY <1>1, <1>2, <1>3, <1>4, <1>5, <1>6, <1>7 DEF Next

\* The invariant: queues, stack, count of messages and senders that wait belong
\* together, for any threads and messages.
THEOREM InvariantTheorem == Spec => []IInv
<1> QED
  BY InitOK, StepOK, PTL DEF Spec

\* Every message that was sent is in one place, once: in a queue, in the hands of the
\* main thread, handled, dropped or abandoned (ApplicationMessenger.cpp:175).
THEOREM EachOnceTheorem == Spec => []EachOnce
<1>1. IInv => EachOnce
  <2> SUFFICES ASSUME IInv PROVE EachOnce
    OBVIOUS
  <2>1. IsInjective(m_vecMessages) /\ IsInjective(m_vecWindowMessages) /\ Shape(stack)
    BY DEF IInv, Shapes, QueuesOK, StackOK, Fifo
  <2>2. \A i, k \in 1 .. Len(stack) : stack[i].msg = stack[k].msg => i = k
    BY <2>1 DEF Shape
  <2>3. Disjoint
    BY DEF IInv, Once
  <2>4. Sent = Placed
    <3>1. m_vecMessages \in Seq(Messages) /\ m_vecWindowMessages \in Seq(Messages)
      BY DEF IInv, Shapes, QueuesOK, Fifo
    <3>2. Queued \subseteq Messages
      BY <3>1, RangeIs DEF Queued
    <3>3. OnStack \subseteq Messages
      BY <2>1, OnStackFacts
    <3>4. Placed \subseteq Messages
      BY <3>2, <3>3 DEF Placed, IInv, Shapes, Types
    <3> QED
      BY <3>4 DEF Sent, Placed
  <2>5. \A t \in Threads \cup {"main"} : Cardinality({m \in Sent : m.from = t}) = sent[t]
    BY <2>4, Zenon DEF IInv, Once, Counted, Of, Senders
  <2> QED
    BY <2>1, <2>2, <2>3, <2>5, Zenon DEF EachOnce, Disjoint
<1> QED
  BY <1>1, InvariantTheorem, PTL

\* Whoever waits has a message that is queued, on the stack or abandoned by an
\* exception, or has been woken because it was handled, or dropped at the end.
THEOREM WaitersAreKnownTheorem == Spec => []WaitersAreKnown
<1>1. IInv => WaitersAreKnown
  <2> SUFFICES ASSUME IInv, NEW t \in Threads, pc[t] \in {"queued", "wait"}
               PROVE  IF msg[t] \in waitEvent THEN msg[t] \in handled \/ (msg[t] \in dropped /\ m_bStop)
                      ELSE msg[t] \in Queued \cup OnStack \cup abandoned
    BY DEF WaitersAreKnown
  <2> QED
    BY DEF IInv, Woken
<1> QED
  BY <1>1, InvariantTheorem, PTL

\* What a step takes out of a queue is the first message of its sender there; all of
\* them go at once when the program stops.
LEMMA TakesFirst ==
  ASSUME IInv, [Next]_vars, NEW m \in Queued, NEW n \in Queued,
         m.from = n.from, m.n < n.n, m.kind = "window" <=> n.kind = "window", n \notin Queued'
  PROVE  m \notin Queued'
<1>1. Shapes
  BY DEF IInv
<1>2. m.kind = "window" <=> m \in Range(m_vecWindowMessages)
  BY <1>1, Zenon DEF Shapes, QueuesOK, Queued
<1>3. n.kind = "window" <=> n \in Range(m_vecWindowMessages)
  BY <1>1, Zenon DEF Shapes, QueuesOK, Queued
<1>4. m.n \in Nat /\ n.n \in Nat
  <2>1. m_vecMessages \in Seq(Messages) /\ m_vecWindowMessages \in Seq(Messages)
    BY <1>1 DEF Shapes, QueuesOK, Fifo
  <2>2. Queued \subseteq Messages
    BY <2>1, RangeIs DEF Queued
  <2> QED
    BY <2>2, MessengerAssumption
<1>5. CASE UNCHANGED queues
  BY <1>1, <1>5, SameQueues
<1>6. ASSUME NEW x \in Messages, Enqueue(x), x.n = sent[x.from] + 1 PROVE FALSE
  <2>1. Queued' = Queued \cup {x}
    BY <1>1, <1>6, NewMessage, EnqueueStep DEF Placed
  <2> QED
    BY <2>1
<1>7. CASE ProcessWindowMessages
  <2>1. CASE m_vecWindowMessages = << >>
    BY <1>5, <1>7, <2>1 DEF ProcessWindowMessages, queues
  <2>2. CASE m_vecWindowMessages # << >>
    <3>1. /\ m_vecWindowMessages' = Tail(m_vecWindowMessages) /\ m_vecMessages' = m_vecMessages
      BY <1>7, <2>2 DEF ProcessWindowMessages
    <3>2. Queued' = Queued \ {Head(m_vecWindowMessages)} /\ Head(m_vecWindowMessages) \in Queued
      BY <1>1, <2>2, <3>1, TakeWindowStep
    <3>3. n = Head(m_vecWindowMessages)
      BY <3>2
    <3>4. /\ Range(Tail(m_vecWindowMessages)) = Range(m_vecWindowMessages) \ {n}
          /\ \A x \in Range(Tail(m_vecWindowMessages)) : x.from = n.from => n.n < x.n
          /\ n \in Range(m_vecWindowMessages)
      BY <1>1, <2>2, <3>3, FifoTail, Zenon DEF Shapes, QueuesOK
    <3>5. m \in Range(m_vecWindowMessages)
      BY <1>2, <1>3, <3>4
    <3>6. m # n
      BY <1>4
    <3>7. n.n < m.n
      BY <3>4, <3>5, <3>6
    <3> QED
      BY <1>4, <3>7
  <2> QED
    BY <2>1, <2>2
<1>8. CASE ProcessMessages
  <2>1. CASE m_vecMessages = << >>
    BY <1>5, <1>8, <2>1 DEF ProcessMessages, queues
  <2>2. CASE m_vecMessages # << >>
    <3>1. /\ m_vecMessages' = Tail(m_vecMessages) /\ m_vecWindowMessages' = m_vecWindowMessages
      BY <1>8, <2>2 DEF ProcessMessages
    <3>2. Queued' = Queued \ {Head(m_vecMessages)} /\ Head(m_vecMessages) \in Queued
      BY <1>1, <2>2, <3>1, TakeMessageStep
    <3>3. n = Head(m_vecMessages)
      BY <3>2
    <3>4. /\ Range(Tail(m_vecMessages)) = Range(m_vecMessages) \ {n}
          /\ \A x \in Range(Tail(m_vecMessages)) : x.from = n.from => n.n < x.n
          /\ n \in Range(m_vecMessages)
      BY <1>1, <2>2, <3>3, FifoTail, Zenon DEF Shapes, QueuesOK
    <3>5. m \in Range(m_vecMessages)
      <4>1. n.kind # "window"
        BY <1>1, <3>4 DEF Shapes, QueuesOK
      <4> QED
        BY <4>1, <1>2 DEF Queued
    <3>6. m # n
      BY <1>4
    <3>7. n.n < m.n
      BY <3>4, <3>5, <3>6
    <3> QED
      BY <1>4, <3>7
  <2> QED
    BY <2>1, <2>2
<1>9. CASE Cleanup
  <2>1. m_vecMessages' = << >> /\ m_vecWindowMessages' = << >>
    BY <1>9 DEF Cleanup
  <2>2. Range(<< >>) = {}
    BY DEF Range
  <2> QED
    BY <2>1, <2>2, Zenon DEF Queued
<1>10. ASSUME NEW t \in Threads, Wait(t) \/ Return(t) \/ LeaveGraphics(t) \/ End(t)
       PROVE  UNCHANGED queues
  BY <1>10, Zenon DEF Wait, Return, LeaveGraphics, End
<1>11. ASSUME NEW t \in Threads, NEW x \in Messages, SendMessage(t, x)
       PROVE  UNCHANGED queues \/ (Enqueue(x) /\ x.n = sent[x.from] + 1)
  BY <1>11 DEF SendMessage
<1>12. ASSUME NEW x \in Messages, SendHere(x)
       PROVE  UNCHANGED queues \/ (Enqueue(x) /\ x.n = sent[x.from] + 1)
  BY <1>12 DEF SendHere
<1>13. (\E x \in m_active : Close(x)) \/ Act \/ DoModal \/ Render \/ Stop \/ SetStop \/ Unload \/ Throw
         => UNCHANGED queues
  BY Zenon DEF Close, Act, DoModal, Render, Stop, SetStop, Unload, Throw
<1>14. UNCHANGED vars => UNCHANGED queues
  BY Zenon DEF vars
<1> QED
  BY <1>5, <1>6, <1>7, <1>8, <1>9, <1>10, <1>11, <1>12, <1>13, <1>14, Zenon DEF Next, MainThread

\* Two messages of one thread are taken from their queue in the order in which they
\* were sent, at whatever depth the main thread takes them.
THEOREM InOrderTheorem == Spec => InOrder
<1>1. IInv /\ [Next]_vars =>
        [\A m, n \in Queued : (m.from = n.from /\ m.n < n.n /\ (m.kind = "window" <=> n.kind = "window"))
           => ~(n \notin Queued' /\ m \in Queued')]_vars
  BY TakesFirst, Zenon
<1> QED
  BY <1>1, InvariantTheorem, PTL DEF Spec, InOrder
=============================================================================

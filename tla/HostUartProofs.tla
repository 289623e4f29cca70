--------------------------- MODULE HostUartProofs ---------------------------
(* Theorems about HostUart and the worker task below it, checked by TLAPS. *)
EXTENDS HostUart, TimeoutListProofs, FiniteSetTheorems

-----------------------------------------------------------------------------
(* The inductive invariant                                                 *)

RxTimeout == "uart_rx_timeout"

Own == [type : {"timeout", "untimeout"}, of : Handler]
WriterState == [pc : {"idle", "check", "ctx", "post", "load", "store"},
                port : Port \cup {Null}, cnt : 0 .. CntMod - 1]
TakenState == [of : StaticMsg \cup {Null}, argu : Ctx \cup {Null}, cnt : 0 .. CntMod - 1]

TypeInv ==
    /\ setup \in Setup
    /\ mbox \in Seq(Message) /\ Len(mbox) <= setup.mboxSize
    /\ cnt \in [StaticMsg -> 0 .. CntMod - 1] /\ ctx \in [StaticMsg -> Ctx \cup {Null}]
    /\ taken \in TakenState
    /\ timers \in List
    /\ todo \in Seq(Own)
    /\ wait \in [start : 0 .. TickMod - 1, now : 0 .. TickMod - 1, left : Nat \cup {Forever}]
    /\ missed \subseteq StaticMsg \cup Handler
    /\ faults \in 0 .. setup.maxFault
    /\ pc \in Taking \cup {"loop", "wait", "tail", "net_send", "send", "sent", "flow", "writing"}
               \cup StaticMsg \cup Callback \cup Handler
    /\ flow \in BOOLEAN /\ rxOn \in BOOLEAN /\ overrun \in BOOLEAN
    /\ ring \in 0 .. BufSize - 1 /\ owed \in 0 .. BufSize - 1
    /\ ns \in [count : 0 .. BufSize - 1, buflen : 0 .. SendSize, from : 0 .. BufSize - 1]
    /\ toFree \subseteq Port /\ raced \subseteq StaticMsg /\ astray \subseteq Ctx \cup {Null}
    /\ writer \in [Writer -> WriterState]
    /\ callbacks \in 0 .. setup.maxCallback

(* uart_net_send and the receive interrupt.                                *)
BytesInv ==
    /\ overrun => owed = 0
    /\ ~overrun =>
          /\ owed = ring - (IF pc = "sent" THEN ns.buflen ELSE 0)
          /\ pc \in {"tail", "net_send"} => ns.from = 0 /\ ns.count <= ring
          /\ pc = "send" => ns.from = 0 /\ ns.buflen >= 1
          /\ pc \in {"send", "sent"} => ns.buflen + ns.count <= ring

(* The same after an overrun: what uart_net_send has still to send is at   *)
(* most 2 * CacheLimit more than what there is.                            *)
RingInv ==
    /\ pc \in {"tail", "net_send"} =>
          ns.count >= 1 /\ ring > 0 /\ ring >= ns.count - 2 * CacheLimit
    /\ pc \in {"send", "sent"} => /\ ring > 0 /\ ns.count + ns.buflen <= BufSize - 1
                                  /\ ring >= ns.count + ns.buflen - 2 * CacheLimit
                                  /\ ns.count > 0 => ns.buflen = SendSize
    /\ ~rxOn => flow /\ (ring > 0 \/ pc = "flow")

(* The counters of the static messages.                                    *)
Posting(w) == IF writer[w].pc \in {"load", "store"} THEN 1 ELSE 0
Owned(m) == Copies(m) + Taken(m)
CountInv ==
    /\ writer["worker"].pc # "idle" => pc = "writing"
    /\ pc \in Taking => taken.of \in StaticMsg
    /\ "uart_rx" \notin raced
    /\ cnt["uart_rx"] = Owned("uart_rx")
    /\ pc = "store" /\ taken.of = "uart_rx" => taken.cnt = cnt["uart_rx"]
    /\ SentData \notin raced =>
          cnt[SentData] = (Owned(SentData) - (Posting("task") + Posting("worker"))) % CntMod

(* The timeout list: no entry is due later than the list says, less what   *)
(* has passed of the wait in progress.                                     *)
Elapsed == IF wait.now >= wait.start THEN wait.now - wait.start
           ELSE TickMod - wait.start + wait.now
TimerInv ==
    /\ pc # "wait" => wait.left = Forever
    /\ wait.left = Forever =>
          /\ pc = "wait" => timers = <<>>
          /\ \A i \in 1 .. Len(timers) : timers[i].due <= TimeTo(timers, i)
    /\ wait.left # Forever =>
          /\ timers # <<>>
          /\ wait.left = Monus(InTimeout(timers[1].time), Elapsed)
          /\ \A i \in 1 .. Len(timers) :
                timers[i].due <= Monus(TimeTo(timers, i), Elapsed * TickMs)

(* Who sees to the bytes in the ring buffer.                               *)
At == IF pc \in Taking THEN taken.of ELSE pc
Busy == {"uart_rx", "uart_rx_timeout", "tail", "net_send", "send", "sent", "flow"}
Woken == Copies("uart_rx") > 0 \/ "uart_rx" \in missed
TodoInv ==
    \A i \in 1 .. Len(todo) :
        /\ todo[i] = Timeout(RxTimeout) => i = Len(todo)
        /\ todo[i] = Untimeout(RxTimeout) =>
              pc = "tail" \/ (i < Len(todo) /\ todo[Len(todo)] = Timeout(RxTimeout))
StrandInv ==
    /\ TodoInv
    /\ (ring > 0 \/ ~rxOn) /\ At \notin Busy =>
          Woken \/ RxTimeout \in missed \/ Armed(RxTimeout)
    /\ pc \in {"tail", "net_send"} /\ ring # ns.count => Woken
    /\ pc \in {"send", "sent"} /\ ring # ns.count + ns.buflen => Woken
    /\ pc = "flow" /\ ring > 0 => Woken \/ RxTimeout \in missed \/ Armed(RxTimeout)

IInv == TypeInv /\ BytesInv /\ RingInv /\ CountInv /\ TimerInv /\ StrandInv

-----------------------------------------------------------------------------
(* Constants and types                                                     *)

LEMMA Numbers ==
  /\ BufSize \in Nat /\ SendSize \in Nat /\ CacheLimit \in Nat /\ RxMax \in Nat
  /\ SendSize >= 1 /\ SendSize + 2 <= BufSize /\ 2 * CacheLimit <= SendSize
  /\ RxMax >= 1 /\ RxMax <= CacheLimit
  /\ TickMs \in Nat /\ TickMs > 0 /\ TickMod \in Nat /\ TickMod > 0
  /\ CntMod \in Nat /\ CntMod > 3
BY HostUartAssumption, WlTaskAssumption

LEMMA Names ==
  /\ StaticMsg = {"uart_rx", SentData} /\ Callback = {"uart_tx", "socket_create"}
  /\ Handler = {RxTimeout, "sock_recv_timeout"} /\ Ctx = {"uart1"} \cup Port
BY HostUartAssumption DEF SentData, RxTimeout, Port

LEMMA Remainder ==
  ASSUME NEW n \in Nat, n > 0, NEW x \in Int
  PROVE  /\ x % n \in 0 .. n - 1
         /\ x \in 0 .. n - 1 => x % n = x
         /\ x = n => x % n = 0
         /\ x \in n .. 2 * n - 1 => x % n = x - n
         /\ x \in -n .. -1 => x % n = x + n
OBVIOUS

LEMMA MessageType ==
  ASSUME NEW m \in Message
  PROVE  /\ m.type \in {"static", "callback", "timeout", "untimeout"}
         /\ m.type = "static" => m.of \in StaticMsg /\ m = Static(m.of)
         /\ m.type = "callback" => m.of \in Callback
         /\ m.type = "timeout" => m.of \in Handler /\ m = Timeout(m.of)
         /\ m.type = "untimeout" => m.of \in Handler /\ m = Untimeout(m.of)
         /\ m.of \in StaticMsg \cup Callback \cup Handler
BY DEF Message, Static, Timeout, Untimeout

LEMMA OwnType ==
  ASSUME NEW m \in Own
  PROVE  m \in Message /\ m.type \in {"timeout", "untimeout"} /\ m.of \in Handler
BY DEF Own, Message

LEMMA HeadType ==
  ASSUME NEW S, NEW q \in Seq(S), q # <<>>
  PROVE  Head(q) \in S /\ Head(q) = q[1] /\ Tail(q) \in Seq(S) /\ Len(q) > 0
OBVIOUS

-----------------------------------------------------------------------------
(* uart_net_send and the receive interrupt                                 *)

Sending == {"tail", "net_send", "send", "sent", "flow"}
Quiet == UNCHANGED uartVars /\ (pc' = pc \/ (pc \notin Sending /\ pc' \notin Sending))

(* What is not listed leaves the ring buffer and uart_net_send alone.      *)
LEMMA UartSteps ==
  ASSUME TypeInv, CountInv, [Next]_vars
  PROVE  \/ Quiet
         \/ \E n \in 0 .. RxMax : RxInterrupt(n)
         \/ UartRx \/ UartRxTimeout \/ ReadTail \/ Copy \/ Send \/ SendRefused \/ Sent \/ FlowOn
<1>1. CASE UNCHANGED vars
  BY <1>1 DEF vars, taskVars, uartVars, Quiet
<1>2. CASE Loop
  <2>1. CASE PostOwn
    BY <1>2, <2>1 DEF Loop, PostOwn, Quiet, Sending
  <2>2. CASE Fetch
    BY <1>2, <2>2 DEF Loop, Fetch, Quiet, Sending
  <2>3. CASE Expire
    <3>1. Head(timers) \in Entry
      BY <2>3, HeadType DEF Expire, Expired, TypeInv, List
    <3>2. pc' \in Handler /\ pc \in {"loop", "wait"}
      BY <2>3, <3>1 DEF Expire, Expired, Entry
    <3> QED
      BY <1>2, <3>2, Names DEF Loop, Quiet, Sending, RxTimeout
  <2>4. CASE ReceiveStatic \/ ReceiveCallback \/ ReceiveTimeout \/ ReceiveUntimeout
    <3>1. Receive
      BY <2>4 DEF ReceiveStatic, ReceiveCallback, ReceiveTimeout, ReceiveUntimeout
    <3>2. Head(mbox) \in Message /\ pc = "wait"
      BY <3>1, HeadType DEF Receive, TypeInv
    <3>3. pc' \in {"loop", "argu"} \cup StaticMsg \cup Callback \cup Handler
      BY <2>4, <3>2, MessageType DEF ReceiveStatic, ReceiveCallback, ReceiveTimeout, ReceiveUntimeout
    <3> QED
      BY <1>2, <3>2, <3>3, Names DEF Loop, Quiet, Sending, RxTimeout, SentData
  <2>5. CASE ReadCtx \/ LoadCnt \/ StoreCnt
    <3>1. pc \in Taking /\ pc' \in {"load", "store"} \cup StaticMsg
      BY <2>5 DEF ReadCtx, LoadCnt, StoreCnt, OfTaken, Taking, CountInv
    <3> QED
      BY <1>2, <3>1, Names DEF Loop, Quiet, Sending, Taking, SentData
  <2> QED
    BY <1>2, <2>1, <2>2, <2>3, <2>4, <2>5 DEF Loop, WorkerLoop
<1>3. ASSUME NEW w \in Writer, WriterSteps(w)
      PROVE  Quiet
  <2>1. ASSUME NEW from, from # "idle", NEW to, WriterStep(w, from, to)
        PROVE  Quiet
    BY <2>1 DEF WriterStep, CountInv, Quiet, Sending
  <2> QED
    BY <1>3, <2>1 DEF WriterSteps, WriterCheck, WriterCtx, WriterPost, WriterLoad, WriterStore
<1>4. ASSUME NEW p \in Port, TxCharsStart(p) \/ TxInterrupt(p)
      PROVE  Quiet
  BY <1>4 DEF TxCharsStart, TxInterrupt, taskVars, Quiet
<1>5. CASE Time
  BY <1>5 DEF Time, Tick, Quiet
<1>6. ASSUME NEW f \in Callback, OtherTask(f)
      PROVE  Quiet
  BY <1>6 DEF OtherTask, Quiet
<1>7. CASE FreeTxSentData \/ SockRecvTimeout \/ UartTx \/ SocketCreate
  BY <1>7 DEF FreeTxSentData, SockRecvTimeout, UartTx, SocketCreate, AtFunction, Quiet, Sending, SentData
<1> QED
  BY <1>1, <1>2, <1>3, <1>4, <1>5, <1>6, <1>7 DEF Next, Worker, Functions, Writer

(* uart_net_send cuts what it has to send into a piece and the rest.       *)
LEMMA PieceAndRest ==
  ASSUME NEW c \in Nat, NEW s \in Nat, c >= 1, s >= 1
  PROVE  /\ Min2(c, s) \in Nat /\ Monus(c, s) \in Nat
         /\ Min2(c, s) + Monus(c, s) = c /\ Min2(c, s) >= 1
         /\ Monus(c, s) > 0 => Min2(c, s) = s
BY DEF Min2, Monus

LEMMA NsTypes ==
  ASSUME TypeInv
  PROVE  /\ ring \in Nat /\ ring <= BufSize - 1 /\ owed \in Nat /\ owed <= BufSize - 1
         /\ ns.count \in Nat /\ ns.count <= BufSize - 1
         /\ ns.buflen \in Nat /\ ns.buflen <= SendSize
         /\ ns.from \in Nat /\ ns.from <= BufSize - 1
         /\ ns = [count |-> ns.count, buflen |-> ns.buflen, from |-> ns.from]
<1>1. /\ ring \in 0 .. BufSize - 1 /\ owed \in 0 .. BufSize - 1
      /\ ns \in [count : 0 .. BufSize - 1, buflen : 0 .. SendSize, from : 0 .. BufSize - 1]
  BY DEF TypeInv
<1>2. /\ ns.count \in 0 .. BufSize - 1 /\ ns.buflen \in 0 .. SendSize /\ ns.from \in 0 .. BufSize - 1
      /\ ns = [count |-> ns.count, buflen |-> ns.buflen, from |-> ns.from]
  BY <1>1
<1> QED
  BY <1>1, <1>2, Numbers

(* The receive interrupt adds its bytes and, only where there is no room,  *)
(* takes CacheLimit of the oldest.                                         *)
LEMMA Received ==
  ASSUME TypeInv, NEW n \in 0 .. RxMax, RxInterrupt(n)
  PROVE  /\ ns'.count = ns.count /\ ns'.buflen = ns.buflen /\ ~overrun
         /\ \/ ~overrun' /\ ring' = ring + n /\ ring' <= BufSize - 1 /\ ns'.from = ns.from
            \/ overrun' /\ ring' = ring - CacheLimit + n /\ ring >= BufSize - 1 - CacheLimit
         /\ overrun' => owed' = 0
         /\ ~overrun' => owed' = owed + n
         /\ ring' \in 0 .. BufSize - 1
         /\ ns' \in [count : 0 .. BufSize - 1, buflen : 0 .. SendSize, from : 0 .. BufSize - 1]
<1> DEFINE dropped == IF Space <= CacheLimit THEN CacheLimit ELSE 0
           x == ring - dropped + n
           y == ns.from - dropped
<1>1. n \in Nat /\ n <= RxMax
  BY Numbers
<1>2. /\ ring' = x % BufSize /\ ~overrun /\ (overrun' <=> dropped > 0)
      /\ owed' = (IF overrun' THEN 0 ELSE owed + n)
      /\ ns' = ns \/ ns' = [ns EXCEPT !.from = y % BufSize]
  BY DEF RxInterrupt
<1>3. x \in 0 .. BufSize - 1 /\ dropped \in Nat /\ CacheLimit > 0
  BY <1>1, Numbers, NsTypes DEF Space
<1>4. ring' = x
  <2> HIDE DEF x
  <2> QED
    BY <1>2, <1>3, Numbers, Remainder
<1>5. y \in Int /\ y % BufSize \in 0 .. BufSize - 1 /\ (dropped = 0 => y % BufSize = ns.from)
  <2>1. y \in Int /\ (dropped = 0 => y = ns.from) /\ ns.from \in 0 .. BufSize - 1
    BY <1>3, NsTypes, Numbers
  <2> HIDE DEF y, dropped
  <2> QED
    BY <2>1, Numbers, Remainder
<1>6. /\ ns'.count = ns.count /\ ns'.buflen = ns.buflen
      /\ ns'.from = ns.from \/ ns'.from = y % BufSize
      /\ ns' \in [count : 0 .. BufSize - 1, buflen : 0 .. SendSize, from : 0 .. BufSize - 1]
  <2>1. ns \in [count : 0 .. BufSize - 1, buflen : 0 .. SendSize, from : 0 .. BufSize - 1]
    BY DEF TypeInv
  <2> HIDE DEF y
  <2> QED
    BY <1>2, <1>5, <2>1
<1>7. CASE Space <= CacheLimit
  <2>1. dropped = CacheLimit /\ overrun'
    BY <1>2, <1>3, <1>7, Numbers
  <2>2. ring' = ring - CacheLimit + n /\ ring >= BufSize - 1 - CacheLimit
    BY <1>1, <1>4, <1>7, <2>1, Numbers, NsTypes DEF Space
  <2> QED
    BY <1>2, <1>3, <1>4, <1>6, <2>1, <2>2
<1>8. CASE ~(Space <= CacheLimit)
  <2>1. dropped = 0 /\ ~overrun'
    BY <1>2, <1>8
  <2>2. ring' = ring + n /\ ns'.from = ns.from
    BY <1>1, <1>4, <1>5, <1>6, <2>1, NsTypes
  <2>3. ring' <= BufSize - 1
    BY <1>3, <1>4, Numbers
  <2> QED
    BY <1>2, <1>3, <1>4, <1>6, <2>1, <2>2, <2>3
<1> QED
  BY <1>7, <1>8

LEMMA BytesStep ==
  ASSUME TypeInv, BytesInv, RingInv, CountInv, [Next]_vars
  PROVE  BytesInv'
<1>0. overrun \in BOOLEAN /\ overrun' \in BOOLEAN
  BY UartSteps DEF TypeInv, Quiet, uartVars, RxInterrupt, UartRx, UartRxTimeout, ReadTail, Copy, Send, SendRefused, Sent, FlowOn
<1>1. CASE Quiet
  BY <1>1 DEF Quiet, uartVars, Sending, BytesInv
<1>2. ASSUME NEW n \in 0 .. RxMax, RxInterrupt(n)
      PROVE  BytesInv'
  <2>1. n \in Nat /\ pc' = pc
    BY <1>2, Numbers DEF RxInterrupt
  <2> QED
    BY <1>2, <2>1, Received, NsTypes, Numbers DEF BytesInv
<1>3. CASE UartRx \/ UartRxTimeout
  <2>1. /\ pc \in {"uart_rx", "uart_rx_timeout"} /\ UNCHANGED <<overrun, owed, ring>>
        /\ \/ pc' = "loop"
           \/ pc' = "tail" /\ ns'.count = ring /\ ns'.from = 0
    BY <1>3 DEF UartRx, UartRxTimeout, AtFunction, Idle
  <2> QED
    BY <2>1, NsTypes DEF BytesInv
<1>4. CASE Copy
  <2>1. /\ ns'.buflen = Min2(ns.count, SendSize) /\ ns'.count = Monus(ns.count, SendSize)
        /\ ns'.from = ns.from
    BY <1>4, NsTypes DEF Copy
  <2>2. ns.count >= 1 /\ ns.count \in Nat /\ SendSize >= 1 /\ SendSize \in Nat
    <3>1. pc = "net_send"
      BY <1>4 DEF Copy, AtFunction
    <3> QED
      BY <3>1, NsTypes, Numbers DEF RingInv
  <2>3. ns'.buflen + ns'.count = ns.count /\ ns.count >= 1 /\ ns'.buflen >= 1
    BY <2>1, <2>2, PieceAndRest
  <2> QED
    BY <1>4, <2>1, <2>3 DEF BytesInv, Copy, AtFunction
<1>5. CASE Send
  BY <1>5, NsTypes DEF Send, AtFunction, BytesInv
<1>6. CASE SendRefused
  BY <1>6, NsTypes DEF SendRefused, AtFunction, BytesInv, Idle
<1>7. CASE Sent
  <2>1. ring' = (ring - ns.buflen) % BufSize /\ pc = "sent" /\ UNCHANGED <<owed, overrun>>
    BY <1>7 DEF Sent, AtFunction
  <2>2. CASE overrun
    BY <2>1, <2>2 DEF BytesInv
  <2>3. CASE ~overrun
    <3>1. ns.buflen + ns.count <= ring /\ owed = ring - ns.buflen
      BY <2>1, <2>3 DEF BytesInv
    <3>2. ring - ns.buflen \in 0 .. BufSize - 1
      BY <3>1, NsTypes, Numbers
    <3>3. ring' = ring - ns.buflen
      BY <2>1, <3>2, Remainder, Numbers
    <3>4. \/ pc' = "net_send" /\ ns'.from = 0 /\ ns'.count = ns.count
          \/ pc' = "flow"
      BY <1>7, NsTypes DEF Sent
    <3> QED
      BY <2>1, <2>3, <3>1, <3>3, <3>4, NsTypes DEF BytesInv
  <2> QED
    BY <2>2, <2>3
<1>8. CASE FlowOn
  BY <1>8 DEF FlowOn, AtFunction, BytesInv
<1>9. CASE ReadTail
  BY <1>9 DEF ReadTail, AtFunction, uartVars, BytesInv
<1> QED
  BY <1>1, <1>2, <1>3, <1>4, <1>5, <1>6, <1>7, <1>8, <1>9, UartSteps

LEMMA RingStep ==
  ASSUME TypeInv, RingInv, CountInv, [Next]_vars
  PROVE  RingInv'
<1>1. CASE Quiet
  BY <1>1 DEF Quiet, uartVars, Sending, RingInv
<1>2. ASSUME NEW n \in 0 .. RxMax, RxInterrupt(n)
      PROVE  RingInv'
  <2>1. n \in Nat /\ pc' = pc /\ rxOn /\ rxOn' = rxOn
    BY <1>2, Numbers DEF RxInterrupt
  <2> QED
    BY <1>2, <2>1, Received, NsTypes, Numbers DEF RingInv
<1>3. CASE UartRx \/ UartRxTimeout
  <2>1. /\ pc \in {"uart_rx", "uart_rx_timeout"} /\ UNCHANGED <<rxOn, flow, ring>>
        /\ \/ pc' = "loop"
           \/ pc' = "tail" /\ ns'.count = ring /\ ring > 0
    <3>1. ring \in Nat /\ SendSize \in Nat /\ SendSize >= 1
      BY NsTypes, Numbers
    <3>2. CASE UartRx
      BY <3>1, <3>2 DEF UartRx, AtFunction, Idle
    <3>3. CASE UartRxTimeout
      BY <3>3 DEF UartRxTimeout, AtFunction, Idle
    <3> QED
      BY <1>3, <3>2, <3>3
  <2> QED
    BY <2>1, NsTypes, Numbers DEF RingInv
<1>4. CASE Copy
  <2>1. ns'.buflen = Min2(ns.count, SendSize) /\ ns'.count = Monus(ns.count, SendSize)
    BY <1>4, NsTypes DEF Copy
  <2>2. /\ ns'.count + ns'.buflen = ns.count /\ (ns'.count > 0 => ns'.buflen = SendSize)
        /\ ns'.count \in Nat /\ ns'.buflen \in Nat
    <3>1. pc = "net_send"
      BY <1>4 DEF Copy, AtFunction
    <3>2. ns.count >= 1 /\ ns.count \in Nat /\ SendSize >= 1 /\ SendSize \in Nat
      BY <3>1, NsTypes, Numbers DEF RingInv
    <3> DEFINE piece == Min2(ns.count, SendSize)
               rest == Monus(ns.count, SendSize)
    <3>3. /\ piece \in Nat /\ rest \in Nat /\ piece + rest = ns.count
          /\ rest > 0 => piece = SendSize
      BY <3>2, PieceAndRest
    <3>4. rest + piece = ns.count
      <4> HIDE DEF piece, rest
      <4> QED
        BY <3>3
    <3> QED
      BY <2>1, <3>3, <3>4
  <2> QED
    <3>1. /\ pc = "net_send" /\ pc' = "send" /\ UNCHANGED ring
          /\ (rxOn' <=> rxOn) /\ (flow' <=> flow)
          /\ ring > 0 /\ ring >= ns.count - 2 * CacheLimit
      BY <1>4 DEF RingInv, Copy, AtFunction
    <3>2. ns.count <= BufSize - 1
      BY NsTypes
    <3> QED
      BY <2>2, <3>1, <3>2, NsTypes, Numbers DEF RingInv
<1>5. CASE Send
  BY <1>5 DEF Send, AtFunction, RingInv
<1>6. CASE SendRefused
  BY <1>6 DEF SendRefused, AtFunction, RingInv, RxStatus
<1>7. CASE Sent
  <2>1. /\ ring' = (ring - ns.buflen) % BufSize /\ pc = "sent" /\ UNCHANGED <<rxOn, flow>>
        /\ ring > 0 /\ ring >= ns.count + ns.buflen - 2 * CacheLimit
        /\ ns.count > 0 => ns.buflen = SendSize
    BY <1>7 DEF Sent, AtFunction, RingInv
  <2>2. CASE ns.count >= SendSize /\ ns.buflen # ns.count
    <3>1. ns.buflen = SendSize /\ ns.count > SendSize
      BY <2>1, <2>2, NsTypes, Numbers
    <3>2. ring - ns.buflen \in 1 .. BufSize - 1 /\ ring - ns.buflen >= ns.count - 2 * CacheLimit
      BY <2>1, <3>1, NsTypes, Numbers
    <3>3. ring' = ring - ns.buflen
      BY <2>1, <3>2, Remainder, Numbers, NsTypes
    <3>4. pc' = "net_send" /\ ns'.count = ns.count
      BY <1>7, <2>2, NsTypes DEF Sent
    <3> QED
      BY <2>1, <3>1, <3>2, <3>3, <3>4, NsTypes, Numbers DEF RingInv
  <2>3. CASE ~(ns.count >= SendSize /\ ns.buflen # ns.count)
    BY <1>7, <2>1, <2>3 DEF Sent, RingInv
  <2> QED
    BY <2>2, <2>3
<1>8. CASE FlowOn
  <2>1. ASSUME ~rxOn' PROVE ring > 0
    <3>1. flow /\ ~(Space > BufSize \div 2)
      BY <1>8, <2>1 DEF FlowOn, RxStatus, RingInv
    <3> QED
      BY <3>1, NsTypes, Numbers DEF Space
  <2>2. ASSUME ~rxOn' PROVE flow
    BY <1>8, <2>2 DEF FlowOn, RxStatus, RingInv
  <2> QED
    BY <1>8, <2>1, <2>2 DEF FlowOn, AtFunction, RingInv
<1>9. CASE ReadTail
  BY <1>9 DEF ReadTail, AtFunction, uartVars, RingInv
<1> QED
  BY <1>1, <1>2, <1>3, <1>4, <1>5, <1>6, <1>7, <1>8, <1>9, UartSteps

-----------------------------------------------------------------------------
(* The counters of the static messages                                     *)

LEMMA Multiple ==
  ASSUME NEW n \in Nat, n > 0, NEW d \in Int, n * d < n, -n < n * d
  PROVE  d = 0
<1>1. d >= 1 => n * d >= n
  OBVIOUS
<1>2. d <= -1 => n * d <= -n
  OBVIOUS
<1> QED
  BY <1>1, <1>2

LEMMA Congruent ==
  ASSUME NEW n \in Nat, n > 0, NEW q \in Int, NEW r \in 0 .. n - 1
  PROVE  (n * q + r) % n = r
<1> DEFINE x == n * q + r
           p == x \div n
           s == x % n
<1>1. x \in Int /\ p \in Int /\ s \in 0 .. n - 1 /\ x = n * p + s
  OBVIOUS
<1>2. n * (p - q) = r - s
  BY <1>1
<1>3. p - q = 0
  <2> DEFINE d == p - q
  <2>1. d \in Int /\ n * d = r - s
    BY <1>1, <1>2
  <2> HIDE DEF d, p, s, x
  <2>2. n * d < n /\ -n < n * d
    BY <1>1, <2>1
  <2>3. d = 0
    BY <2>1, <2>2, Multiple
  <2> QED
    BY <2>3 DEF d
<1> QED
  BY <1>1, <1>2, <1>3

(* Counting up and down modulo n.                                          *)
LEMMA CountsModulo ==
  ASSUME NEW n \in Nat, n > 1, NEW x \in Int
  PROVE  /\ ((x % n) + 1) % n = (x + 1) % n
         /\ ((x % n) - 1) % n = (x - 1) % n
<1> DEFINE q == x \div n
           r == x % n
<1>1. q \in Int /\ r \in 0 .. n - 1 /\ x = n * q + r
  OBVIOUS
<1> HIDE DEF q, r
<1>2. n * (q + 1) = n * q + n /\ n * (q - 1) = n * q - n /\ q + 1 \in Int /\ q - 1 \in Int
  BY <1>1
<1>3. (r + 1) % n = (x + 1) % n
  <2>1. CASE r + 1 < n
    <3> DEFINE t == r + 1
    <3>1. x + 1 = n * q + t /\ t \in 0 .. n - 1 /\ (r + 1) % n = t
      BY <1>1, <2>1
    <3> HIDE DEF t
    <3>2. (n * q + t) % n = t
      BY <1>1, <3>1, Congruent
    <3> QED
      BY <3>1, <3>2
  <2>2. CASE r + 1 = n
    <3> DEFINE t == q + 1
    <3>1. x + 1 = n * t + 0 /\ (r + 1) % n = 0 /\ t \in Int /\ 0 \in 0 .. n - 1
      BY <1>1, <1>2, <2>2
    <3> HIDE DEF t
    <3>2. (n * t + 0) % n = 0
      BY <3>1, Congruent
    <3> QED
      BY <3>1, <3>2
  <2> QED
    BY <1>1, <2>1, <2>2
<1>4. (r - 1) % n = (x - 1) % n
  <2>1. CASE r >= 1
    <3>1. x - 1 = n * q + (r - 1) /\ r - 1 \in 0 .. n - 1 /\ (r - 1) % n = r - 1
      BY <1>1, <2>1
    <3> QED
      BY <1>1, <3>1, Congruent
  <2>2. CASE r = 0
    <3>1. x - 1 = n * (q - 1) + (n - 1) /\ (r - 1) % n = n - 1 /\ n - 1 \in 0 .. n - 1
      BY <1>1, <1>2, <2>2
    <3> QED
      BY <1>2, <3>1, Congruent
  <2> QED
    BY <1>1, <2>1, <2>2
<1> QED
  BY <1>3, <1>4 DEF r

Count(q, m) == Cardinality({i \in DOMAIN q : q[i] = m})

LEMMA CountType ==
  ASSUME NEW S, NEW q \in Seq(S), NEW m
  PROVE  /\ IsFiniteSet({i \in DOMAIN q : q[i] = m}) /\ Count(q, m) \in Nat
         /\ Count(q, m) = 0 <=> \A i \in 1 .. Len(q) : q[i] # m
<1> DEFINE P == {i \in DOMAIN q : q[i] = m}
<1>1. Len(q) \in Nat /\ DOMAIN q = 1 .. Len(q) /\ 1 \in Int
  OBVIOUS
<1>2. IsFiniteSet(1 .. Len(q)) /\ P \in SUBSET (1 .. Len(q))
  BY <1>1, FS_Interval
<1>3. IsFiniteSet(P)
  BY <1>2, FS_Subset
<1>4. Cardinality(P) \in Nat /\ (Cardinality(P) = 0 <=> P = {})
  BY <1>3, FS_CardinalityType, FS_EmptySet
<1> QED
  BY <1>1, <1>3, <1>4 DEF Count

LEMMA CountAppend ==
  ASSUME NEW S, NEW q \in Seq(S), NEW e \in S, NEW m
  PROVE  Count(Append(q, e), m) = Count(q, m) + (IF e = m THEN 1 ELSE 0)
<1> DEFINE P == {i \in DOMAIN q : q[i] = m}
           R == {i \in DOMAIN Append(q, e) : Append(q, e)[i] = m}
           n == Len(q) + 1
<1>1. IsFiniteSet(P) /\ Cardinality(P) \in Nat
  BY CountType DEF Count
<1>2. n \notin P /\ R = IF e = m THEN P \cup {n} ELSE P
  OBVIOUS
<1>3. Cardinality(P \cup {n}) = Cardinality(P) + 1
  <2> HIDE DEF P, n
  <2> QED
    BY <1>1, <1>2, FS_AddElement
<1>4. Count(q, m) = Cardinality(P) /\ Count(Append(q, e), m) = Cardinality(R)
  BY DEF Count
<1> HIDE DEF P, R, n
<1> QED
  BY <1>1, <1>2, <1>3, <1>4

LEMMA CountTail ==
  ASSUME NEW S, NEW q \in Seq(S), q # <<>>, NEW m
  PROVE  /\ Count(Tail(q), m) = Count(q, m) - (IF Head(q) = m THEN 1 ELSE 0)
         /\ Head(q) = m => Count(q, m) > 0
<1> DEFINE P == {i \in DOMAIN q : q[i] = m}
           R == {i \in DOMAIN Tail(q) : Tail(q)[i] = m}
           f == [i \in R |-> i + 1]
<1>0. Tail(q) \in Seq(S)
  OBVIOUS
<1>1. IsFiniteSet(P) /\ Cardinality(P) \in Nat /\ IsFiniteSet(R)
  <2>1. IsFiniteSet(R)
    BY <1>0, CountType, Zenon
  <2> QED
    BY <2>1, CountType DEF Count
<1>2. Len(q) > 0 /\ Len(Tail(q)) = Len(q) - 1 /\ \A i \in 1 .. Len(q) - 1 : Tail(q)[i] = q[i + 1]
  OBVIOUS
<1>3. P \subseteq Nat /\ R \subseteq Nat
  OBVIOUS
<1>4. \A i \in Nat : i \in R <=> i + 1 \in P \ {1}
  BY <1>0, <1>2
<1>5. f \in Bijection(R, P \ {1})
  <2>1. f \in [R -> P \ {1}]
    BY <1>3, <1>4
  <2>2. \A a, b \in R : f[a] = f[b] => a = b
    BY <1>3
  <2>3. ASSUME NEW t \in P \ {1} PROVE \E s \in R : f[s] = t
    <3>1. t - 1 \in Nat /\ (t - 1) + 1 = t
      OBVIOUS
    <3>2. t - 1 \in R
      BY <1>4, <3>1
    <3> QED
      BY <3>1, <3>2
  <2> HIDE DEF f, P, R
  <2> QED
    BY <2>1, <2>2, <2>3 DEF Bijection, Injection, Surjection, IsInjective
<1>6. Cardinality(P \ {1}) = Cardinality(R)
  <2> HIDE DEF f, P, R
  <2>1. ExistsBijection(R, P \ {1})
    BY <1>5 DEF ExistsBijection
  <2> QED
    BY <1>1, <2>1, FS_Bijection
<1>7. 1 \in P <=> Head(q) = m
  BY <1>2
<1>8. /\ Cardinality(P \ {1}) = IF 1 \in P THEN Cardinality(P) - 1 ELSE Cardinality(P)
      /\ 1 \in P => Cardinality(P) > 0
  <2> HIDE DEF P
  <2>1. Cardinality(P \ {1}) = IF 1 \in P THEN Cardinality(P) - 1 ELSE Cardinality(P)
    BY <1>1, FS_RemoveElement, Zenon
  <2>2. 1 \in P => Cardinality(P) # 0
    BY <1>1, FS_EmptySet
  <2> QED
    BY <1>1, <2>1, <2>2
<1>9. Count(q, m) = Cardinality(P) /\ Count(Tail(q), m) = Cardinality(R)
  BY DEF Count
<1> HIDE DEF P, R
<1> QED
  BY <1>1, <1>6, <1>7, <1>8, <1>9

LEMMA CountingSize ==
  Cardinality(Counting) = Posting("task") + Posting("worker")
<1>1. /\ IsFiniteSet({}) /\ Cardinality({}) = 0
      /\ \A x : IsFiniteSet({} \cup {x}) /\ Cardinality({} \cup {x}) = 1
  BY FS_EmptySet, FS_AddElement
<1>2. Cardinality(({} \cup {"task"}) \cup {"worker"}) = 2
  <2> DEFINE T == {} \cup {"task"}
  <2>1. "worker" \notin T /\ IsFiniteSet(T) /\ Cardinality(T) = 1
    BY <1>1
  <2> HIDE DEF T
  <2>2. Cardinality(T \cup {"worker"}) = 2
    BY <2>1, FS_AddElement
  <2> QED
    BY <2>2 DEF T
<1>3. Counting = (IF Posting("task") = 1 THEN {"task"} ELSE {})
                 \cup (IF Posting("worker") = 1 THEN {"worker"} ELSE {})
  BY DEF Counting, Posting, Writer
<1>4. CASE Posting("task") = 1 /\ Posting("worker") = 1
  <2>1. Counting = ({} \cup {"task"}) \cup {"worker"}
    BY <1>3, <1>4
  <2> QED
    BY <1>2, <1>4, <2>1
<1>5. CASE Posting("task") = 1 /\ Posting("worker") # 1
  <2>1. Counting = {} \cup {"task"}
    BY <1>3, <1>5
  <2>2. Posting("worker") = 0
    BY <1>5 DEF Posting
  <2>3. Cardinality({} \cup {"task"}) = 1
    BY <1>1
  <2> QED
    BY <1>5, <2>1, <2>2, <2>3
<1>6. CASE Posting("task") # 1 /\ Posting("worker") = 1
  <2>1. Counting = {} \cup {"worker"}
    <3>1. (IF Posting("task") = 1 THEN {"task"} ELSE {}) = {}
      BY <1>6
    <3>2. (IF Posting("worker") = 1 THEN {"worker"} ELSE {}) = {"worker"}
      BY <1>6
    <3> QED
      BY <1>3, <3>1, <3>2
  <2>2. Posting("task") = 0
    BY <1>6 DEF Posting
  <2>3. Cardinality({} \cup {"worker"}) = 1
    BY <1>1
  <2> QED
    BY <1>6, <2>1, <2>2, <2>3
<1>7. CASE Posting("task") # 1 /\ Posting("worker") # 1
  <2>1. Counting = {}
    BY <1>3, <1>7
  <2> QED
    BY <1>1, <1>7, <2>1 DEF Posting
<1> QED
  BY <1>4, <1>5, <1>6, <1>7

LEMMA CopiesCount ==
  /\ \A m : Copies(m) = Count(mbox, Static(m))
  /\ Copies("uart_rx")' = Count(mbox', Static("uart_rx"))
  /\ Copies(SentData)' = Count(mbox', Static(SentData))
BY DEF Copies, Count

LEMMA CountTypes ==
  ASSUME TypeInv
  PROVE  /\ cnt["uart_rx"] \in 0 .. CntMod - 1 /\ cnt[SentData] \in 0 .. CntMod - 1
         /\ cnt["uart_rx"] \in Nat /\ cnt[SentData] \in Nat
         /\ \A m : Taken(m) \in {0, 1} /\ Copies(m) \in Nat /\ Owned(m) \in Nat
         /\ DOMAIN cnt = StaticMsg /\ DOMAIN writer = Writer /\ taken \in TakenState
         /\ taken.cnt \in 0 .. CntMod - 1 /\ taken.cnt \in Nat
         /\ \A w \in Writer : /\ writer[w] \in WriterState /\ writer[w].cnt \in Nat
                              /\ Posting(w) \in {0, 1}
<1>1. cnt["uart_rx"] \in 0 .. CntMod - 1 /\ cnt[SentData] \in 0 .. CntMod - 1
  BY Names DEF TypeInv
<1>2. ASSUME NEW m
      PROVE  Taken(m) \in {0, 1} /\ Copies(m) \in Nat /\ Owned(m) \in Nat
  <2>1. Taken(m) \in {0, 1}
    BY DEF Taken
  <2>2. Copies(m) \in Nat
    BY CopiesCount, CountType DEF TypeInv
  <2> QED
    BY <2>1, <2>2 DEF Owned
<1>3. \A w \in Writer : writer[w] \in WriterState /\ writer[w].cnt \in 0 .. CntMod - 1
  BY DEF TypeInv, WriterState
<1>4. DOMAIN cnt = StaticMsg /\ DOMAIN writer = Writer
  BY DEF TypeInv
<1>5. \A w \in Writer : Posting(w) \in {0, 1}
  BY DEF Posting
<1>6. taken \in TakenState /\ taken.cnt \in 0 .. CntMod - 1
  BY DEF TypeInv, TakenState
<1> QED
  BY <1>1, <1>2, <1>3, <1>4, <1>5, <1>6, Numbers

(* The worker neither takes a message nor lets go of one.                  *)
Steady == UNCHANGED <<pc, taken>> \/ (pc \notin Taking /\ pc' \notin Taking)

LEMMA SteadyOwned ==
  ASSUME Steady,
         \A m \in StaticMsg : Count(mbox', Static(m)) = Count(mbox, Static(m))
  PROVE  Owned("uart_rx")' = Owned("uart_rx") /\ Owned(SentData)' = Owned(SentData)
<1>1. Copies("uart_rx")' = Copies("uart_rx") /\ Copies(SentData)' = Copies(SentData)
  BY CopiesCount, Names
<1>2. Taken("uart_rx")' = Taken("uart_rx") /\ Taken(SentData)' = Taken(SentData)
  BY DEF Taken, Steady
<1> QED
  BY <1>1, <1>2 DEF Owned

LEMMA CountFrame ==
  ASSUME CountInv, UNCHANGED <<cnt, writer>>, Steady,
         raced \subseteq raced', "uart_rx" \notin raced',
         pc = "writing" => pc' = "writing",
         \A m \in StaticMsg : Count(mbox', Static(m)) = Count(mbox, Static(m))
  PROVE  CountInv'
<1>1. Owned("uart_rx")' = Owned("uart_rx") /\ Owned(SentData)' = Owned(SentData)
  BY SteadyOwned
<1>2. Posting("task")' = Posting("task") /\ Posting("worker")' = Posting("worker")
  BY DEF Posting
<1> QED
  BY <1>1, <1>2 DEF CountInv, Steady, Taking

LEMMA NotCounted ==
  ASSUME TypeInv, NEW e \in Message, e.type # "static",
         mbox' = mbox \/ mbox' = Append(mbox, e) \/ (mbox # <<>> /\ e = Head(mbox) /\ mbox' = Tail(mbox))
  PROVE  \A m \in StaticMsg : Count(mbox', Static(m)) = Count(mbox, Static(m))
<1> TAKE m \in StaticMsg
<1>1. e # Static(m)
  BY DEF Static
<1>2. mbox \in Seq(Message) /\ Count(mbox, Static(m)) \in Nat
  BY CountType DEF TypeInv
<1>3. CASE mbox' = Append(mbox, e)
  BY <1>1, <1>2, <1>3, CountAppend
<1>4. CASE mbox # <<>> /\ e = Head(mbox) /\ mbox' = Tail(mbox)
  BY <1>1, <1>2, <1>4, CountTail
<1> QED
  BY <1>3, <1>4

(* tls_wl_task_callback_static in an interrupt.                            *)
LEMMA CallbackCounts ==
  ASSUME TypeInv, NEW m \in StaticMsg, NEW c, CallbackStatic(m, c)
  PROVE  \/ UNCHANGED <<mbox, cnt>>
         \/ /\ cnt[m] = 0 /\ cnt'[m] = 1 /\ \A k \in StaticMsg \ {m} : cnt'[k] = cnt[k]
            /\ Count(mbox', Static(m)) = Count(mbox, Static(m)) + 1
            /\ \A k \in StaticMsg \ {m} : Count(mbox', Static(k)) = Count(mbox, Static(k))
<1>1. CASE cnt[m] > 0 \/ Full
  BY <1>1 DEF CallbackStatic, mboxVars
<1>2. CASE ~(cnt[m] > 0) /\ ~Full
  <2>1. mbox' = Append(mbox, Static(m)) /\ cnt' = [cnt EXCEPT ![m] = (@ + 1) % CntMod]
    BY <1>2 DEF CallbackStatic
  <2>2. cnt[m] = 0 /\ DOMAIN cnt = StaticMsg
    BY <1>2, Numbers DEF TypeInv
  <2>3. (0 + 1) % CntMod = 1
    BY Numbers
  <2>4. mbox \in Seq(Message) /\ Static(m) \in Message
    BY DEF TypeInv, Message, Static
  <2>5. \A k \in StaticMsg : Static(k) = Static(m) => k = m
    BY DEF Static
  <2>6. \A k \in StaticMsg : /\ Count(mbox, Static(k)) \in Nat
                             /\ Count(mbox', Static(k)) =
                                   Count(mbox, Static(k)) + (IF Static(m) = Static(k) THEN 1 ELSE 0)
    <3> TAKE k \in StaticMsg
    <3> DEFINE s == Static(k)
               e == Static(m)
    <3> HIDE DEF s, e
    <3>1. e \in Message /\ mbox' = Append(mbox, e)
      BY <2>1, <2>4 DEF e
    <3>2. Count(mbox, s) \in Nat /\ Count(mbox', s) = Count(mbox, s) + (IF e = s THEN 1 ELSE 0)
      <4>1. Count(mbox, s) \in Nat
        BY <2>4, CountType, Zenon
      <4>2. Count(Append(mbox, e), s) = Count(mbox, s) + (IF e = s THEN 1 ELSE 0)
        BY <2>4, <3>1, CountAppend
      <4> QED
        BY <3>1, <4>1, <4>2
    <3> QED
      BY <3>2 DEF s, e
  <2>7. cnt'[m] = 1 /\ \A k \in StaticMsg \ {m} : cnt'[k] = cnt[k]
    BY <2>1, <2>2, <2>3
  <2> QED
    BY <2>2, <2>5, <2>6, <2>7
<1> QED
  BY <1>1, <1>2


(* The worker loses no update of the receiver's counter.                   *)
LEMMA LoopRaced ==
  ASSUME TypeInv, CountInv, Loop
  PROVE  /\ raced \subseteq raced' /\ "uart_rx" \notin raced'
         /\ pc = "store" /\ taken.of = SentData /\ SentData \notin raced' => taken.cnt = cnt[SentData]
<1>1. raced' = IF pc = "store" THEN Lost(taken.of, taken.cnt) ELSE raced
  BY DEF Loop
<1>2. CASE pc = "store"
  <2>1. taken.of \in {"uart_rx", SentData} /\ raced' = Lost(taken.of, taken.cnt)
    BY <1>1, <1>2, Names DEF CountInv, Taking
  <2> QED
    BY <1>2, <2>1 DEF CountInv, Lost, SentData
<1> QED
  BY <1>1, <1>2 DEF CountInv

(* The worker takes a static message and counts it down.                   *)
LEMMA TakenCounts ==
  ASSUME TypeInv, CountInv, Loop, ReceiveStatic \/ ReadCtx \/ LoadCnt \/ StoreCnt
  PROVE  CountInv'
<1>1. /\ raced \subseteq raced' /\ "uart_rx" \notin raced' /\ writer' = writer
      /\ Posting("task")' = Posting("task") /\ Posting("worker")' = Posting("worker")
  BY LoopRaced DEF Loop, Posting
<1>2. pc # "writing" /\ writer["worker"].pc = "idle"
  BY DEF ReceiveStatic, Receive, ReadCtx, LoadCnt, StoreCnt, OfTaken, CountInv
<1>3. CASE ReceiveStatic
  <2> DEFINE k == Head(mbox).of
  <2>1. /\ mbox \in Seq(Message) /\ mbox # <<>> /\ mbox' = Tail(mbox) /\ pc = "wait" /\ pc' = "argu"
        /\ Head(mbox) = Static(k) /\ k \in StaticMsg /\ taken'.of = k /\ cnt' = cnt
    BY <1>3, HeadType, MessageType DEF ReceiveStatic, Receive, TypeInv, NotTaken
  <2> HIDE DEF k
  <2>2. ASSUME NEW m \in StaticMsg
        PROVE  Count(mbox', Static(m)) + (IF k = m THEN 1 ELSE 0) = Count(mbox, Static(m))
    <3>1. Static(m) = Static(k) <=> m = k
      BY DEF Static
    <3>2. Count(mbox, Static(m)) \in Nat
      BY <2>1, CountType
    <3>3. Count(Tail(mbox), Static(m)) = Count(mbox, Static(m)) - (IF Static(k) = Static(m) THEN 1 ELSE 0)
      BY <2>1, CountTail
    <3> QED
      BY <2>1, <3>1, <3>2, <3>3
  <2>3. /\ Taken("uart_rx") = 0 /\ Taken(SentData) = 0
        /\ Taken("uart_rx")' = (IF k = "uart_rx" THEN 1 ELSE 0)
        /\ Taken(SentData)' = (IF k = SentData THEN 1 ELSE 0)
    BY <2>1 DEF Taken, Taking
  <2>4. Owned("uart_rx")' = Owned("uart_rx") /\ Owned(SentData)' = Owned(SentData)
    <3>1. Copies("uart_rx")' + Taken("uart_rx")' = Copies("uart_rx") + 0
      BY <2>2, <2>3, CopiesCount, CountTypes, Names
    <3>2. Copies(SentData)' + Taken(SentData)' = Copies(SentData) + 0
      BY <2>2, <2>3, CopiesCount, CountTypes, Names
    <3> QED
      BY <2>3, <3>1, <3>2 DEF Owned
  <2> QED
    BY <1>1, <1>2, <2>1, <2>4 DEF CountInv
<1>4. CASE ReadCtx \/ LoadCnt
  <2>1. /\ mbox' = mbox /\ cnt' = cnt /\ pc \in Taking /\ pc' \in Taking /\ taken'.of = taken.of
        /\ pc' = "store" => taken'.cnt = cnt[taken.of]
    BY <1>4, CountTypes DEF ReadCtx, LoadCnt, OfTaken, Taking, TakenState
  <2>2. Owned("uart_rx")' = Owned("uart_rx") /\ Owned(SentData)' = Owned(SentData)
    BY <2>1 DEF Owned, Copies, Taken
  <2> QED
    BY <1>1, <1>2, <2>1, <2>2 DEF CountInv
<1>5. CASE StoreCnt
  <2>1. /\ mbox' = mbox /\ pc = "store" /\ pc' = taken.of /\ taken.of \in StaticMsg
        /\ cnt' = [cnt EXCEPT ![taken.of] = (taken.cnt - 1) % CntMod]
    BY <1>5 DEF StoreCnt, OfTaken, CountInv, Taking
  <2>2. pc' \notin Taking /\ pc \in Taking
    BY <2>1, Names DEF Taking, SentData
  <2>3. Copies("uart_rx")' = Copies("uart_rx") /\ Copies(SentData)' = Copies(SentData)
    BY <2>1, CopiesCount
  <2>4. Taken("uart_rx")' = 0 /\ Taken(SentData)' = 0
    BY <2>2 DEF Taken
  <2>5. CASE taken.of = "uart_rx"
    <3>1. /\ cnt'["uart_rx"] = (taken.cnt - 1) % CntMod /\ cnt'[SentData] = cnt[SentData]
      BY <2>1, <2>5, CountTypes, Names DEF SentData
    <3>2. Taken("uart_rx") = 1 /\ Taken(SentData) = 0
      BY <2>2, <2>5 DEF Taken, SentData
    <3>3. taken.cnt = cnt["uart_rx"] /\ cnt["uart_rx"] = Owned("uart_rx") /\ Owned("uart_rx") = Copies("uart_rx") + 1
      BY <2>1, <2>5, <3>2 DEF CountInv, Owned
    <3>4. taken.cnt - 1 \in 0 .. CntMod - 1
      BY <3>3, CountTypes, Numbers
    <3>5. cnt'["uart_rx"] = taken.cnt - 1
      BY <3>1, <3>4, Remainder, Numbers
    <3>6. cnt'["uart_rx"] = Owned("uart_rx")' /\ Owned(SentData)' = Owned(SentData)
      BY <2>3, <2>4, <3>2, <3>3, <3>5, CountTypes DEF Owned
    <3> QED
      BY <1>1, <1>2, <2>2, <3>1, <3>6 DEF CountInv, Taking
  <2>6. CASE taken.of = SentData
    <3>1. cnt'["uart_rx"] = cnt["uart_rx"] /\ cnt'[SentData] = (taken.cnt - 1) % CntMod
      BY <2>1, <2>6, CountTypes, Names DEF SentData
    <3>2. Taken("uart_rx") = 0 /\ Taken(SentData) = 1
      BY <2>2, <2>6 DEF Taken, SentData
    <3>3. Owned("uart_rx")' = Owned("uart_rx") /\ Owned(SentData)' = Owned(SentData) - 1
      BY <2>3, <2>4, <3>2, CountTypes DEF Owned
    <3>4. ASSUME SentData \notin raced'
          PROVE  cnt'[SentData] = (Owned(SentData)' - (Posting("task") + Posting("worker"))) % CntMod
      <4> DEFINE K == Owned(SentData) - (Posting("task") + Posting("worker"))
      <4>1. K \in Int /\ Owned(SentData)' - (Posting("task") + Posting("worker")) = K - 1
        BY <3>3, CountTypes DEF Posting
      <4>2. taken.cnt = K % CntMod
        BY <1>1, <2>1, <2>6, <3>4, LoopRaced DEF CountInv
      <4> HIDE DEF K
      <4> QED
        BY <3>1, <4>1, <4>2, CountsModulo, Numbers
    <3> QED
      BY <1>1, <1>2, <2>2, <3>1, <3>3, <3>4 DEF CountInv, Taking
  <2> QED
    BY <2>1, <2>5, <2>6, Names
<1> QED
  BY <1>3, <1>4, <1>5

(* tls_uart_tx_chars_start: a writer looks at the counter, posts and counts. *)
LEMMA WriterCounts ==
  ASSUME TypeInv, CountInv, NEW w \in Writer, WriterSteps(w)
  PROVE  CountInv'
<1>1. PICK v \in Writer : /\ v # w /\ Writer = {v, w}
                          /\ Posting("task") + Posting("worker") = Posting(v) + Posting(w)
                          /\ (Posting("task") + Posting("worker"))' = Posting(v)' + Posting(w)'
  BY DEF Writer, Posting
<1> DEFINE K == Owned(SentData) - (Posting("task") + Posting("worker"))
<1>2. /\ cnt[SentData] \in Nat /\ cnt["uart_rx"] \in Nat /\ Owned(SentData) \in Nat
      /\ Posting(v) \in {0, 1} /\ Posting(w) \in {0, 1} /\ K \in Int
      /\ K = Owned(SentData) - (Posting(v) + Posting(w))
  <2>1. /\ cnt[SentData] \in Nat /\ cnt["uart_rx"] \in Nat /\ Owned(SentData) \in Nat
        /\ Posting(v) \in {0, 1} /\ Posting(w) \in {0, 1}
    BY CountTypes
  <2> QED
    BY <1>1, <2>1
<1>3. SentData \notin raced => cnt[SentData] = K % CntMod
  BY DEF CountInv
<1> HIDE DEF K
<1>4. ASSUME NEW from, NEW to, WriterStep(w, from, to), from # "idle"
      PROVE  /\ writer[w].pc = from /\ UNCHANGED taken
             /\ Posting(w) = (IF from \in {"load", "store"} THEN 1 ELSE 0)
             /\ Posting(w)' = (IF to \in {"load", "store"} THEN 1 ELSE 0)
             /\ Posting(v)' = Posting(v)
             /\ writer'["worker"].pc # "idle" => pc' = "writing"
             /\ Steady
  <2>1. /\ writer[w].pc = from
        /\ writer' = [writer EXCEPT ![w] =
                    IF to = "idle" THEN NoWriter
                    ELSE [writer[w] EXCEPT !.pc = to, !.cnt = IF to = "store" THEN cnt[SentData] ELSE 0]]
        /\ pc' = (IF w = "worker" /\ to = "idle" THEN "loop" ELSE pc)
        /\ DOMAIN writer = Writer /\ writer[w] \in WriterState /\ taken' = taken
    BY <1>4, CountTypes DEF WriterStep
  <2>2. writer'[w].pc = to /\ writer'[v] = writer[v]
    <3>1. writer'[v] = writer[v]
      BY <1>1, <2>1
    <3>2. writer'[w] = IF to = "idle" THEN NoWriter
                       ELSE [writer[w] EXCEPT !.pc = to, !.cnt = IF to = "store" THEN cnt[SentData] ELSE 0]
      BY <2>1
    <3>3. to = "idle" => writer'[w].pc = to
      BY <3>2 DEF NoWriter
    <3>4. to # "idle" => writer'[w].pc = to
      BY <2>1, <3>2 DEF WriterState
    <3> QED
      BY <3>1, <3>3, <3>4
  <2>3. writer'["worker"].pc # "idle" => pc' = "writing"
    BY <1>1, <1>4, <2>1, <2>2 DEF CountInv, Writer
  <2>4. w = "worker" => pc = "writing"
    BY <1>4, <2>1 DEF CountInv
  <2>5. Steady
    BY <2>1, <2>4 DEF Steady, Taking
  <2> QED
    BY <2>1, <2>2, <2>3, <2>5 DEF Posting
<1>5. SUFFICES
        /\ writer'["worker"].pc # "idle" => pc' = "writing"
        /\ UNCHANGED taken /\ Steady
        /\ "uart_rx" \notin raced'
        /\ cnt'["uart_rx"] = cnt["uart_rx"] /\ Owned("uart_rx")' = Owned("uart_rx")
        /\ SentData \notin raced' =>
              cnt'[SentData] = (Owned(SentData)' - (Posting(v)' + Posting(w)')) % CntMod
  BY <1>1 DEF CountInv, Steady, Taking
<1>6. ASSUME mbox' = mbox, Steady
      PROVE  Owned("uart_rx")' = Owned("uart_rx") /\ Owned(SentData)' = Owned(SentData)
  BY <1>6, SteadyOwned
<1>7. "uart_rx" \notin raced
  BY DEF CountInv
<1>8. ASSUME NEW from, NEW to, WriterStep(w, from, to), from # "idle",
             UNCHANGED <<mbox, cnt, raced>>,
             from \in {"load", "store"} <=> to \in {"load", "store"}
      PROVE  /\ Owned("uart_rx")' = Owned("uart_rx") /\ cnt'["uart_rx"] = cnt["uart_rx"]
             /\ "uart_rx" \notin raced'
             /\ SentData \notin raced' =>
                   cnt'[SentData] = (Owned(SentData)' - (Posting(v)' + Posting(w)')) % CntMod
  <2>1. Posting(w)' = Posting(w) /\ Posting(v)' = Posting(v) /\ Steady
    BY <1>4, <1>8
  <2>2. Owned("uart_rx")' = Owned("uart_rx") /\ Owned(SentData)' = Owned(SentData)
    BY <1>6, <1>8, <2>1
  <2> QED
    BY <1>2, <1>3, <1>7, <1>8, <2>1, <2>2
<1>9. CASE WriterCheck(w) \/ WriterCtx(w) \/ WriterLoad(w)
  <2>1. PICK from \in {"check", "ctx", "load"}, to \in {"idle", "ctx", "post", "store"} :
           /\ WriterStep(w, from, to) /\ UNCHANGED <<mbox, cnt, raced>>
           /\ from = "load" <=> to = "store"
    BY <1>9 DEF WriterCheck, WriterCtx, WriterLoad
  <2> QED
    BY <1>4, <1>8, <2>1
<1>10. CASE WriterPost(w)
  <2>1. cnt' = cnt /\ raced' = raced
    BY <1>10 DEF WriterPost
  <2>2. CASE WriterStep(w, "post", "load") /\ mbox' = Append(mbox, Static(SentData))
    <3>1. mbox \in Seq(Message) /\ Static(SentData) \in Message
      BY Names DEF TypeInv, Message, Static
    <3>2. Static("uart_rx") # Static(SentData)
      BY DEF Static, SentData
    <3>3. Copies(SentData)' = Copies(SentData) + 1
      BY <2>2, <3>1, CopiesCount, CountAppend
    <3>4. Copies("uart_rx")' = Copies("uart_rx")
      <4>1. Count(mbox', Static("uart_rx")) = Count(mbox, Static("uart_rx")) + 0
        BY <2>2, <3>1, <3>2, CountAppend
      <4> QED
        BY <4>1, CopiesCount, CountTypes
    <3>5. Taken("uart_rx")' = Taken("uart_rx") /\ Taken(SentData)' = Taken(SentData)
      BY <1>4, <2>2 DEF Taken, Steady
    <3>6. Owned(SentData)' = Owned(SentData) + 1 /\ Owned("uart_rx")' = Owned("uart_rx")
      BY <3>3, <3>4, <3>5, CountTypes DEF Owned
    <3>7. Posting(w) = 0 /\ Posting(w)' = 1 /\ Posting(v)' = Posting(v)
      BY <1>4, <2>2
    <3>8. Owned(SentData)' - (Posting(v)' + Posting(w)') = K
      BY <1>2, <3>6, <3>7
    <3> QED
      BY <1>3, <1>4, <1>7, <2>1, <2>2, <3>6, <3>8
  <2>3. CASE WriterStep(w, "post", "idle") /\ mbox' = mbox
    BY <1>4, <1>8, <2>1, <2>3
  <2> QED
    BY <1>10, <2>2, <2>3 DEF WriterPost
<1>11. CASE WriterStore(w)
  <2>1. /\ WriterStep(w, "store", "idle") /\ mbox' = mbox
        /\ cnt' = [cnt EXCEPT ![SentData] = (writer[w].cnt + 1) % CntMod]
        /\ raced' = Lost(SentData, writer[w].cnt)
    BY <1>11 DEF WriterStore
  <2>2. cnt'["uart_rx"] = cnt["uart_rx"] /\ cnt'[SentData] = (writer[w].cnt + 1) % CntMod
    BY <2>1, CountTypes, Names DEF SentData
  <2>3. "uart_rx" \notin raced' /\ (SentData \notin raced' => SentData \notin raced /\ writer[w].cnt = cnt[SentData])
    BY <1>7, <2>1 DEF Lost, SentData
  <2>4. Posting(w) = 1 /\ Posting(w)' = 0 /\ Posting(v)' = Posting(v) /\ Steady
    BY <1>4, <2>1
  <2>5. Owned("uart_rx")' = Owned("uart_rx") /\ Owned(SentData)' = Owned(SentData)
    BY <1>6, <2>1, <2>4
  <2>6. Owned(SentData)' - (Posting(v)' + Posting(w)') = K + 1
    BY <1>2, <2>4, <2>5
  <2>7. SentData \notin raced' => cnt'[SentData] = (K + 1) % CntMod
    <3>1. ((K % CntMod) + 1) % CntMod = (K + 1) % CntMod
      BY <1>2, CountsModulo, Numbers
    <3> QED
      BY <1>3, <2>2, <2>3, <3>1
  <2> QED
    BY <1>4, <2>1, <2>2, <2>3, <2>5, <2>6, <2>7
<1> QED
  BY <1>9, <1>10, <1>11 DEF WriterSteps

(* A writer starts: nothing is posted or counted yet.                      *)
LEMMA WriterStarts ==
  ASSUME TypeInv, CountInv, NEW w \in Writer, NEW p, writer[w].pc = "idle",
         writer' = [writer EXCEPT ![w] = [NoWriter EXCEPT !.pc = "check", !.port = p]],
         UNCHANGED <<mbox, cnt, raced>>, Steady,
         w = "worker" => pc' = "writing", w = "task" => pc' = pc
  PROVE  CountInv'
<1>1. writer'[w].pc = "check" /\ \A v \in Writer \ {w} : writer'[v] = writer[v]
  BY CountTypes DEF NoWriter
<1>2. Posting("task")' = Posting("task") /\ Posting("worker")' = Posting("worker")
  BY <1>1 DEF Posting, Writer
<1>3. Owned("uart_rx")' = Owned("uart_rx") /\ Owned(SentData)' = Owned(SentData)
  BY SteadyOwned
<1> QED
  BY <1>1, <1>2, <1>3 DEF CountInv, Writer, Steady, Taking

LEMMA CountStep ==
  ASSUME TypeInv, CountInv, [Next]_vars
  PROVE  CountInv'
<1>0. ASSUME UNCHANGED <<mbox, cnt, writer, raced>>, Steady, pc = "writing" => pc' = "writing"
      PROVE  CountInv'
  BY <1>0, CountFrame DEF CountInv
<1>1. CASE UNCHANGED vars
  BY <1>0, <1>1 DEF vars, taskVars, mboxVars, txVars, Steady
<1>2. CASE Loop
  <2>1. UNCHANGED writer /\ raced \subseteq raced' /\ "uart_rx" \notin raced'
    BY <1>2, LoopRaced DEF Loop
  <2>2. CASE PostOwn
    <3>1. /\ todo # <<>> /\ UNCHANGED <<cnt, pc, taken>>
          /\ mbox' = mbox \/ mbox' = Append(mbox, Head(todo))
      BY <2>2 DEF PostOwn
    <3>2. Head(todo) \in Message /\ Head(todo).type # "static"
      BY <3>1, HeadType, OwnType DEF TypeInv
    <3>3. \A m \in StaticMsg : Count(mbox', Static(m)) = Count(mbox, Static(m))
      BY <3>1, <3>2, NotCounted
    <3> QED
      BY <2>1, <3>1, <3>3, CountFrame DEF Steady
  <2>3. CASE Fetch \/ Expire
    <3>1. UNCHANGED <<mbox, cnt>> /\ pc \in {"loop", "wait"} /\ pc' \in {"wait"} \cup Handler
      <4>1. CASE Fetch
        BY <4>1 DEF Fetch, mboxVars
      <4>2. CASE Expire
        <5>1. Head(timers) \in Entry
          BY <4>2, HeadType DEF Expire, Expired, TypeInv, List
        <5> QED
          BY <4>2, <5>1 DEF Expire, Expired, mboxVars, Entry
      <4> QED
        BY <2>3, <4>1, <4>2
    <3>2. Steady /\ pc # "writing"
      BY <3>1, Names DEF Steady, Taking, RxTimeout
    <3> QED
      BY <2>1, <3>1, <3>2, CountFrame
  <2>4. CASE ReceiveStatic \/ ReadCtx \/ LoadCnt \/ StoreCnt
    BY <1>2, <2>4, TakenCounts
  <2>5. CASE ReceiveCallback \/ ReceiveTimeout \/ ReceiveUntimeout
    <3>1. /\ Receive /\ cnt' = cnt /\ Head(mbox).type # "static"
      BY <2>5 DEF ReceiveCallback, ReceiveTimeout, ReceiveUntimeout
    <3>2. /\ mbox # <<>> /\ mbox' = Tail(mbox) /\ pc = "wait" /\ Head(mbox) \in Message
      BY <3>1, HeadType DEF Receive, TypeInv
    <3>3. \A m \in StaticMsg : Count(mbox', Static(m)) = Count(mbox, Static(m))
      BY <3>1, <3>2, NotCounted
    <3>4. pc' \in {"loop"} \cup Callback
      BY <2>5, <3>2, MessageType DEF ReceiveCallback, ReceiveTimeout, ReceiveUntimeout
    <3>5. Steady
      BY <3>2, <3>4, Names DEF Steady, Taking
    <3> QED
      BY <2>1, <3>1, <3>2, <3>3, <3>5, CountFrame
  <2> QED
    BY <1>2, <2>2, <2>3, <2>4, <2>5 DEF Loop, WorkerLoop
<1>3. CASE Time
  BY <1>0, <1>3 DEF Time, Tick, mboxVars, txVars, Steady
<1>4. CASE UartRx \/ UartRxTimeout \/ ReadTail \/ Copy \/ Send \/ SendRefused \/ Sent \/ FlowOn
           \/ FreeTxSentData \/ SockRecvTimeout \/ SocketCreate
  <2>1. UNCHANGED <<mbox, cnt, writer, raced>> /\ pc # "writing" /\ Steady
    <3>1. CASE UartRx \/ UartRxTimeout \/ ReadTail \/ Copy \/ Send
      BY <3>1 DEF UartRx, UartRxTimeout, ReadTail, Copy, Send, AtFunction, mboxVars, txVars, Steady, Taking
    <3>2. CASE SendRefused
      BY <3>2 DEF SendRefused, AtFunction, mboxVars, txVars, Steady, Taking
    <3>3. CASE Sent
      BY <3>3 DEF Sent, AtFunction, mboxVars, txVars, Steady, Taking
    <3>4. CASE FlowOn
      BY <3>4 DEF FlowOn, AtFunction, mboxVars, txVars, Steady, Taking
    <3>5. CASE FreeTxSentData \/ SockRecvTimeout \/ SocketCreate
      BY <3>5 DEF FreeTxSentData, SockRecvTimeout, SocketCreate, AtFunction, mboxVars, txVars,
                  Steady, Taking, SentData
    <3> QED
      BY <1>4, <3>1, <3>2, <3>3, <3>4, <3>5
  <2> QED
    BY <1>0, <2>1
<1>5. CASE UartTx
  <2>1. /\ UNCHANGED <<mbox, cnt, raced>> /\ pc = "uart_tx" /\ Steady
        /\ \/ \E p \in Port : writer' = [writer EXCEPT !["worker"] = [NoWriter EXCEPT !.pc = "check", !.port = p]]
              /\ pc' = "writing"
           \/ writer' = writer
    BY <1>5 DEF UartTx, AtFunction, mboxVars, Steady, Taking
  <2>2. ASSUME NEW p \in Port, pc' = "writing",
               writer' = [writer EXCEPT !["worker"] = [NoWriter EXCEPT !.pc = "check", !.port = p]]
        PROVE  CountInv'
    <3>1. writer["worker"].pc = "idle" /\ "worker" \in Writer
      BY <2>1 DEF CountInv, Writer
    <3> QED
      BY <2>1, <2>2, <3>1, WriterStarts
  <2> QED
    BY <1>0, <2>1, <2>2
<1>6. ASSUME NEW p \in Port, TxInterrupt(p)
      PROVE  CountInv'
  <2>1. CallbackStatic(SentData, p) /\ UNCHANGED <<writer, pc, taken, raced>> /\ Steady
    BY <1>6 DEF TxInterrupt, Steady
  <2>2. CASE UNCHANGED <<mbox, cnt>>
    BY <1>0, <2>1, <2>2
  <2>3. CASE ~UNCHANGED <<mbox, cnt>>
    <3>1. /\ cnt[SentData] = 0 /\ cnt'[SentData] = 1 /\ cnt'["uart_rx"] = cnt["uart_rx"]
          /\ Count(mbox', Static(SentData)) = Count(mbox, Static(SentData)) + 1
          /\ Count(mbox', Static("uart_rx")) = Count(mbox, Static("uart_rx"))
      BY <2>1, <2>3, CallbackCounts, Names DEF SentData
    <3>2. Copies("uart_rx")' = Copies("uart_rx") /\ Copies(SentData)' = Copies(SentData) + 1
      BY <3>1, CopiesCount
    <3>3. Taken("uart_rx")' = Taken("uart_rx") /\ Taken(SentData)' = Taken(SentData)
      BY <2>1 DEF Taken
    <3>4. /\ Posting("task")' = Posting("task") /\ Posting("worker")' = Posting("worker")
          /\ Posting("task") \in {0, 1} /\ Posting("worker") \in {0, 1}
      BY <2>1 DEF Posting
    <3>5. Owned("uart_rx")' = Owned("uart_rx") /\ Owned(SentData)' = Owned(SentData) + 1
      BY <3>2, <3>3, CountTypes DEF Owned
    <3>6. ASSUME SentData \notin raced'
          PROVE  cnt'[SentData] = (Owned(SentData)' - (Posting("task")' + Posting("worker")')) % CntMod
      <4> DEFINE K == Owned(SentData) - (Posting("task") + Posting("worker"))
      <4>1. K \in Int /\ Owned(SentData)' - (Posting("task")' + Posting("worker")') = K + 1
        BY <3>4, <3>5, CountTypes
      <4>2. 0 = K % CntMod
        BY <2>1, <3>1, <3>6 DEF CountInv
      <4> HIDE DEF K
      <4>3. ((K % CntMod) + 1) % CntMod = (K + 1) % CntMod
        <5> DEFINE n == CntMod
        <5>1. n \in Nat /\ n > 1 /\ K \in Int
          BY <4>1, Numbers
        <5> HIDE DEF n
        <5>2. ((K % n) + 1) % n = (K + 1) % n
          BY <5>1, CountsModulo
        <5> QED
          BY <5>2 DEF n
      <4>4. (0 + 1) % CntMod = 1
        BY Numbers
      <4> QED
        BY <3>1, <4>1, <4>2, <4>3, <4>4
    <3> QED
      BY <2>1, <3>1, <3>5, <3>6, Names DEF CountInv, SentData
  <2> QED
    BY <2>2, <2>3
<1>7. ASSUME NEW n \in 0 .. RxMax, RxInterrupt(n)
      PROVE  CountInv'
  <2>1. CallbackStatic("uart_rx", "uart1") /\ UNCHANGED <<writer, pc, taken, raced>> /\ Steady
    BY <1>7 DEF RxInterrupt, txVars, Steady
  <2>2. CASE UNCHANGED <<mbox, cnt>>
    BY <1>0, <2>1, <2>2
  <2>3. CASE ~UNCHANGED <<mbox, cnt>>
    <3>1. /\ cnt["uart_rx"] = 0 /\ cnt'["uart_rx"] = 1 /\ cnt'[SentData] = cnt[SentData]
          /\ Count(mbox', Static("uart_rx")) = Count(mbox, Static("uart_rx")) + 1
          /\ Count(mbox', Static(SentData)) = Count(mbox, Static(SentData))
      BY <2>1, <2>3, CallbackCounts, Names DEF SentData
    <3>2. Copies("uart_rx")' = Copies("uart_rx") + 1 /\ Copies(SentData)' = Copies(SentData)
      BY <3>1, CopiesCount
    <3>3. /\ Posting("task")' = Posting("task") /\ Posting("worker")' = Posting("worker")
          /\ Taken("uart_rx")' = Taken("uart_rx") /\ Taken(SentData)' = Taken(SentData)
      BY <2>1 DEF Posting, Taken
    <3>4. /\ Owned(SentData)' = Owned(SentData) /\ Owned("uart_rx")' = Owned("uart_rx") + 1
      BY <3>2, <3>3, CountTypes DEF Owned
    <3>5. Owned("uart_rx") = 0 /\ cnt'["uart_rx"] = Owned("uart_rx")'
      BY <3>1, <3>4 DEF CountInv
    <3>6. Taken("uart_rx") = 0
      BY <3>5, CountTypes DEF Owned
    <3> QED
      BY <2>1, <3>1, <3>3, <3>4, <3>5, <3>6 DEF CountInv, Taken, Taking
  <2> QED
    BY <2>2, <2>3
<1>8. ASSUME NEW f \in Callback, OtherTask(f)
      PROVE  CountInv'
  <2> DEFINE e == [type |-> "callback", of |-> f]
  <2>1. /\ UNCHANGED <<cnt, writer, pc, taken, raced>>
        /\ mbox' = mbox \/ mbox' = Append(mbox, e)
    BY <1>8 DEF OtherTask, PostCallback, CallbackFails, CallbackNoMem, mboxVars, txVars
  <2>2. e \in Message /\ e.type # "static"
    BY DEF Message
  <2> HIDE DEF e
  <2>3. \A m \in StaticMsg : Count(mbox', Static(m)) = Count(mbox, Static(m))
    BY <2>1, <2>2, NotCounted
  <2> QED
    BY <2>1, <2>3, CountFrame DEF Steady, CountInv
<1>9. ASSUME NEW w \in Writer, WriterSteps(w)
      PROVE  CountInv'
  BY <1>9, WriterCounts
<1>10. ASSUME NEW p \in Port, TxCharsStart(p)
       PROVE  CountInv'
  <2>1. /\ writer["task"].pc = "idle" /\ "task" \in Writer /\ Steady
        /\ writer' = [writer EXCEPT !["task"] = [NoWriter EXCEPT !.pc = "check", !.port = p]]
        /\ UNCHANGED <<mbox, cnt, raced, pc>>
    BY <1>10 DEF TxCharsStart, taskVars, mboxVars, Steady, Writer
  <2> QED
    BY <2>1, WriterStarts
<1> QED
  BY <1>1, <1>2, <1>3, <1>4, <1>5, <1>6, <1>7, <1>8, <1>9, <1>10 DEF Next, Worker, Functions, Writer

-----------------------------------------------------------------------------
(* Types                                                                   *)

MailType ==
    /\ setup \in Setup
    /\ mbox \in Seq(Message) /\ Len(mbox) <= setup.mboxSize
    /\ missed \subseteq StaticMsg \cup Handler
    /\ faults \in 0 .. setup.maxFault
    /\ callbacks \in 0 .. setup.maxCallback
TimeType ==
    /\ timers \in List
    /\ wait \in [start : 0 .. TickMod - 1, now : 0 .. TickMod - 1, left : Nat \cup {Forever}]
ControlType ==
    /\ todo \in Seq(Own)
    /\ pc \in Taking \cup {"loop", "wait", "tail", "net_send", "send", "sent", "flow", "writing"}
               \cup StaticMsg \cup Callback \cup Handler
UartType ==
    /\ flow \in BOOLEAN /\ rxOn \in BOOLEAN /\ overrun \in BOOLEAN
    /\ ring \in 0 .. BufSize - 1 /\ owed \in 0 .. BufSize - 1
    /\ ns \in [count : 0 .. BufSize - 1, buflen : 0 .. SendSize, from : 0 .. BufSize - 1]
TxType ==
    /\ cnt \in [StaticMsg -> 0 .. CntMod - 1]
    /\ ctx \in [StaticMsg -> Ctx \cup {Null}] /\ taken \in TakenState
    /\ toFree \subseteq Port /\ raced \subseteq StaticMsg /\ astray \subseteq Ctx \cup {Null}
    /\ writer \in [Writer -> WriterState]

LEMMA TypeParts ==
  TypeInv <=> MailType /\ TimeType /\ ControlType /\ UartType /\ TxType
BY DEF TypeInv, MailType, TimeType, ControlType, UartType, TxType

LEMMA Bounds ==
  ASSUME NEW s \in Setup
  PROVE  s.mboxSize \in Nat /\ s.mboxSize > 0 /\ s.maxFault \in Nat /\ s.maxCallback \in Nat
BY WlTaskAssumption, HostUartAssumption

LEMMA MailFrame ==
  ASSUME MailType, UNCHANGED <<setup, mbox>>,
         missed' \subseteq StaticMsg \cup Handler, faults' \in 0 .. setup.maxFault,
         callbacks' \in 0 .. setup.maxCallback
  PROVE  MailType'
BY DEF MailType

LEMMA MailAppend ==
  ASSUME MailType, NEW e \in Message, ~Full, mbox' = Append(mbox, e), UNCHANGED <<setup, faults>>,
         missed' \subseteq StaticMsg \cup Handler, callbacks' \in 0 .. setup.maxCallback
  PROVE  MailType'
<1>1. /\ setup \in Setup /\ mbox \in Seq(Message) /\ Len(mbox) \in Nat /\ setup.mboxSize \in Nat
  BY Bounds DEF MailType
<1>2. mbox' \in Seq(Message) /\ Len(mbox') = Len(mbox) + 1
  BY <1>1
<1>3. Len(mbox') <= setup.mboxSize
  BY <1>1, <1>2 DEF Full
<1> QED
  BY <1>2, <1>3 DEF MailType

LEMMA MailCallbackStatic ==
  ASSUME MailType, NEW m \in StaticMsg, NEW c, CallbackStatic(m, c), UNCHANGED <<setup, callbacks>>
  PROVE  MailType'
<1>1. CASE cnt[m] > 0 \/ Full
  BY <1>1, MailFrame DEF CallbackStatic, mboxVars, MailType
<1>2. CASE ~(cnt[m] > 0) /\ ~Full
  <2>1. Static(m) \in Message
    BY DEF Static, Message
  <2>2. mbox' = Append(mbox, Static(m)) /\ missed' \subseteq missed /\ faults' = faults
    BY <1>2 DEF CallbackStatic
  <2> QED
    BY <1>2, <2>1, <2>2, MailAppend DEF MailType
<1> QED
  BY <1>1, <1>2

LEMMA MailStep ==
  ASSUME MailType, TimeType, ControlType, [Next]_vars
  PROVE  MailType'
<1>0. /\ setup \in Setup /\ mbox \in Seq(Message) /\ missed \subseteq StaticMsg \cup Handler
      /\ faults \in 0 .. setup.maxFault /\ callbacks \in 0 .. setup.maxCallback
      /\ Len(mbox) <= setup.mboxSize /\ setup.mboxSize \in Nat /\ Len(mbox) \in Nat
      /\ setup.maxFault \in Nat /\ setup.maxCallback \in Nat
  BY Bounds DEF MailType
<1>1. ASSUME UNCHANGED <<setup, mbox, missed, faults, callbacks>>
      PROVE  MailType'
  BY <1>0, <1>1, MailFrame
<1>2. CASE UNCHANGED vars
  BY <1>1, <1>2 DEF vars, taskVars, mboxVars
<1>3. ASSUME faults' = faults \/ (faults < setup.maxFault /\ faults' = faults + 1)
      PROVE  faults' \in 0 .. setup.maxFault
  BY <1>0, <1>3
<1>4. CASE Loop
  <2>1. callbacks' = callbacks
    BY <1>4 DEF Loop
  <2>2. CASE PostOwn
    <3>1. Head(todo) \in Own /\ setup' = setup
      BY <2>2, HeadType DEF PostOwn, ControlType
    <3>2. Head(todo) \in Message /\ Head(todo).of \in Handler
      BY <3>1, OwnType
    <3>3. CASE ~Full /\ mbox' = Append(mbox, Head(todo)) /\ Posted /\ UNCHANGED faults
      BY <1>0, <2>1, <3>1, <3>2, <3>3, MailAppend DEF Posted
    <3>4. CASE Unposted /\ UNCHANGED mbox /\ (faults' = faults \/ (faults < setup.maxFault /\ faults' = faults + 1))
      BY <1>0, <1>3, <2>1, <3>1, <3>2, <3>4, MailFrame DEF Unposted
    <3> QED
      BY <2>2, <3>3, <3>4 DEF PostOwn
  <2>3. CASE Fetch \/ Expire
    BY <1>1, <2>1, <2>3 DEF Fetch, Expire, mboxVars
  <2>5. CASE ReadCtx \/ LoadCnt \/ StoreCnt
    BY <1>1, <2>1, <2>5 DEF ReadCtx, LoadCnt, StoreCnt, OfTaken
  <2>4. CASE ReceiveStatic \/ ReceiveCallback \/ ReceiveTimeout \/ ReceiveUntimeout
    <3>1. Receive /\ setup' = setup /\ mbox # <<>> /\ mbox' = Tail(mbox)
      BY <2>4 DEF ReceiveStatic, ReceiveCallback, ReceiveTimeout, ReceiveUntimeout, Receive
    <3>2. mbox' \in Seq(Message) /\ Len(mbox') <= setup.mboxSize /\ Head(mbox) \in Message
      BY <1>0, <3>1
    <3>3. /\ missed' \subseteq StaticMsg \cup Handler
          /\ faults' = faults \/ (faults < setup.maxFault /\ faults' = faults + 1)
      BY <1>0, <2>4, <3>2, MessageType DEF ReceiveStatic, ReceiveCallback, ReceiveTimeout, ReceiveUntimeout
    <3>4. faults' \in 0 .. setup.maxFault
      BY <1>3, <3>3
    <3> QED
      BY <1>0, <2>1, <3>1, <3>2, <3>3, <3>4 DEF MailType
  <2> QED
    BY <1>4, <2>2, <2>3, <2>4, <2>5 DEF Loop, WorkerLoop
<1>5. ASSUME NEW f, AtFunction(f)
      PROVE  MailType'
  BY <1>1, <1>5 DEF AtFunction, mboxVars
<1>6. CASE Time
  BY <1>1, <1>6 DEF Time, Tick, mboxVars
<1>7. ASSUME NEW p \in Port, TxInterrupt(p)
      PROVE  MailType'
  BY <1>7, MailCallbackStatic, Names DEF TxInterrupt
<1>8. ASSUME NEW n \in 0 .. RxMax, RxInterrupt(n)
      PROVE  MailType'
  BY <1>8, MailCallbackStatic, Names DEF RxInterrupt
<1>9. ASSUME NEW w \in Writer, WriterSteps(w)
      PROVE  MailType'
  <2>1. CASE WriterPost(w)
    <3>1. UNCHANGED <<setup, faults, callbacks>>
      BY <2>1 DEF WriterPost, WriterStep
    <3>2. CASE ~Full /\ mbox' = Append(mbox, Static(SentData)) /\ missed' = missed \ {SentData}
      <4>1. Static(SentData) \in Message
        BY Names DEF Static, Message
      <4> QED
        BY <1>0, <3>1, <3>2, <4>1, MailAppend
    <3>3. CASE mbox' = mbox /\ missed' = missed \cup {SentData}
      BY <1>0, <3>1, <3>3, MailFrame, Names
    <3> QED
      BY <2>1, <3>2, <3>3 DEF WriterPost
  <2>2. CASE WriterCheck(w) \/ WriterCtx(w) \/ WriterLoad(w) \/ WriterStore(w)
    BY <1>1, <2>2 DEF WriterCheck, WriterCtx, WriterLoad, WriterStore, WriterStep
  <2> QED
    BY <1>9, <2>1, <2>2 DEF WriterSteps
<1>10. ASSUME NEW p \in Port, TxCharsStart(p)
       PROVE  MailType'
  BY <1>1, <1>10 DEF TxCharsStart, taskVars, mboxVars
<1>11. ASSUME NEW f \in Callback, OtherTask(f)
       PROVE  MailType'
  <2>1. setup' = setup /\ callbacks' \in 0 .. setup.maxCallback
    BY <1>0, <1>11 DEF OtherTask
  <2>2. CASE ~Full /\ mbox' = Append(mbox, [type |-> "callback", of |-> f]) /\ UNCHANGED <<missed, faults>>
    <3>1. [type |-> "callback", of |-> f] \in Message
      BY DEF Message
    <3> QED
      BY <1>0, <2>1, <2>2, <3>1, MailAppend
  <2>3. CASE UNCHANGED <<mbox, missed>> /\ (faults' = faults \/ (faults < setup.maxFault /\ faults' = faults + 1))
    BY <1>0, <1>3, <2>1, <2>3, MailFrame
  <2> QED
    BY <1>11, <2>2, <2>3 DEF OtherTask, PostCallback, CallbackFails, CallbackNoMem, mboxVars
<1> QED
  BY <1>2, <1>4, <1>5, <1>6, <1>7, <1>8, <1>9, <1>10, <1>11
     DEF Next, Worker, Functions, Writer, UartRx, UartRxTimeout, ReadTail, Copy, Send, SendRefused, Sent, FlowOn,
         FreeTxSentData, SockRecvTimeout, UartTx, SocketCreate

LEMMA WaitTypes ==
  ASSUME TimeType
  PROVE  /\ wait.start \in Nat /\ wait.start < TickMod /\ wait.now \in Nat /\ wait.now < TickMod
         /\ wait.left \in Nat \/ wait.left = Forever
         /\ wait = [start |-> wait.start, now |-> wait.now, left |-> wait.left]
         /\ TicksElapsed \in Nat /\ TicksElapsed * TickMs \in Nat
<1>1. /\ wait.start \in 0 .. TickMod - 1 /\ wait.now \in 0 .. TickMod - 1
      /\ wait.left \in Nat \cup {Forever}
      /\ wait = [start |-> wait.start, now |-> wait.now, left |-> wait.left]
  BY DEF TimeType
<1>2. TicksElapsed \in Nat
  BY <1>1, Numbers DEF TicksElapsed
<1>3. TicksElapsed * TickMs \in Nat
  BY <1>2, Numbers
<1> QED
  BY <1>1, <1>2, <1>3, Numbers

LEMMA WaitedType ==
  ASSUME TimeType
  PROVE  Waited \in List
<1> DEFINE w == TicksElapsed * TickMs
<1>1. w \in Nat /\ timers \in List
  BY WaitTypes DEF TimeType
<1>2. CASE timers = <<>>
  BY <1>1, <1>2 DEF Waited
<1>3. CASE timers # <<>>
  <2>1. Waited = [timers EXCEPT ![1].time = Monus(@, w)]
    BY <1>3 DEF Waited
  <2> HIDE DEF w
  <2> QED
    BY <1>1, <1>3, <2>1, WaitedList
<1> QED
  BY <1>2, <1>3

LEMMA UntimeoutPType ==
  ASSUME NEW list \in List, NEW h \in Handler
  PROVE  UntimeoutP(list, h) \in List
<1>1. CASE \E i \in 1 .. Len(list) : list[i].h = h
  BY <1>1, UntimeoutPList
<1>2. CASE ~\E i \in 1 .. Len(list) : list[i].h = h
  <2>1. {i \in DOMAIN list : list[i].h = h} = {}
    BY <1>2, ListType
  <2> QED
    BY <2>1 DEF UntimeoutP
<1> QED
  BY <1>1, <1>2

LEMMA TimeStep ==
  ASSUME TypeInv, [Next]_vars
  PROVE  TimeType'
<1>0. /\ MailType /\ TimeType /\ ControlType /\ timers \in List
      /\ wait \in [start : 0 .. TickMod - 1, now : 0 .. TickMod - 1, left : Nat \cup {Forever}]
      /\ NoWait \in [start : 0 .. TickMod - 1, now : 0 .. TickMod - 1, left : Nat \cup {Forever}]
  <2>1. 0 \in 0 .. TickMod - 1
    BY Numbers
  <2> QED
    BY <2>1, TypeParts DEF TimeType, NoWait
<1>1. ASSUME UNCHANGED <<timers, wait>>
      PROVE  TimeType'
  BY <1>0, <1>1 DEF TimeType
<1>2. CASE UNCHANGED vars
  BY <1>1, <1>2 DEF vars, taskVars
<1>3. CASE Loop
  <2>1. CASE PostOwn
    BY <1>1, <2>1 DEF PostOwn
  <2>2. CASE Fetch
    <3>1. timers' = timers
      BY <2>2 DEF Fetch
    <3>2. CASE timers = <<>> /\ wait' = NoWait
      BY <1>0, <3>1, <3>2 DEF TimeType
    <3>3. CASE timers # <<>>
      <4>1. Head(timers).time \in Nat
        <5>1. Head(timers) \in Entry
          BY <1>0, <3>3, HeadType DEF List
        <5> QED
          BY <5>1 DEF Entry
      <4>2. InTimeout(Head(timers).time) \in Nat
        BY <4>1, Numbers DEF InTimeout
      <4>3. PICK t \in 0 .. TickMod - 1 :
                wait' = [start |-> t, now |-> t, left |-> InTimeout(Head(timers).time)]
        BY <2>2, <3>3 DEF Fetch
      <4> QED
        BY <1>0, <3>1, <4>2, <4>3 DEF TimeType
    <3> QED
      BY <2>2, <3>2, <3>3 DEF Fetch
  <2>3. CASE Expire
    <3>1. /\ timers # <<>> /\ wait' = NoWait
          /\ timers' = [i \in 1 .. Len(timers) - 1 |-> [timers[i + 1] EXCEPT !.due = Monus(@, TickMs - 1)]]
      BY <2>3 DEF Expire, Expired
    <3>2. TickMs - 1 \in Nat
      BY Numbers
    <3>3. timers' \in List
      BY <1>0, <3>1, <3>2, ExpiredList
    <3> QED
      BY <1>0, <3>1, <3>3 DEF TimeType
  <2>4. CASE ReceiveStatic \/ ReceiveCallback \/ ReceiveTimeout \/ ReceiveUntimeout
    <3>1. Receive /\ wait' = NoWait /\ mbox # <<>>
      BY <2>4 DEF ReceiveStatic, ReceiveCallback, ReceiveTimeout, ReceiveUntimeout, Receive
    <3>2. Head(mbox) \in Message
      BY <1>0, <3>1, HeadType DEF MailType
    <3>3. Waited \in List
      BY <1>0, WaitedType
    <3>4. CASE timers' = Waited
      BY <1>0, <3>1, <3>3, <3>4 DEF TimeType
    <3>5. CASE Head(mbox).type = "timeout" /\ timers' = TimeoutP(Waited, Head(mbox).of)
      <4>1. Head(mbox).of \in Handler
        BY <3>2, <3>5, MessageType
      <4>2. timers' \in List
        BY <3>3, <3>5, <4>1, TimeoutPList
      <4> QED
        BY <1>0, <3>1, <4>2 DEF TimeType
    <3>6. CASE Head(mbox).type = "untimeout" /\ timers' = UntimeoutP(Waited, Head(mbox).of)
      <4>1. Head(mbox).of \in Handler
        BY <3>2, <3>6, MessageType
      <4>2. timers' \in List
        BY <3>3, <3>6, <4>1, UntimeoutPType
      <4> QED
        BY <1>0, <3>1, <4>2 DEF TimeType
    <3> QED
      BY <2>4, <3>4, <3>5, <3>6 DEF ReceiveStatic, ReceiveCallback, ReceiveTimeout, ReceiveUntimeout
  <2>5. CASE ReadCtx \/ LoadCnt \/ StoreCnt
    BY <1>1, <2>5 DEF ReadCtx, LoadCnt, StoreCnt, OfTaken
  <2> QED
    BY <1>3, <2>1, <2>2, <2>3, <2>4, <2>5 DEF Loop, WorkerLoop
<1>4. ASSUME NEW f, AtFunction(f)
      PROVE  TimeType'
  BY <1>1, <1>4 DEF AtFunction
<1>5. CASE Time
  <2>1. timers' = [i \in DOMAIN timers |-> [timers[i] EXCEPT !.due = Monus(@, TickMs)]]
    BY <1>5 DEF Time, Tick
  <2>2. timers' \in List
    BY <1>0, <2>1, TickList, Numbers
  <2>3. CASE wait' = wait
    BY <1>0, <2>2, <2>3 DEF TimeType
  <2>4. CASE wait.left # Forever
             /\ wait' = [wait EXCEPT !.now = (@ + 1) % TickMod, !.left = Monus(@, 1)]
    <3>1. wait.left \in Nat /\ Monus(wait.left, 1) \in Nat
      BY <1>0, <2>4, WaitTypes DEF Monus
    <3>2. (wait.now + 1) % TickMod \in 0 .. TickMod - 1
      BY <1>0, WaitTypes, Numbers, Remainder
    <3>3. wait' \in [start : 0 .. TickMod - 1, now : 0 .. TickMod - 1, left : Nat \cup {Forever}]
      BY <1>0, <2>4, <3>1, <3>2
    <3> QED
      BY <2>2, <3>3 DEF TimeType
  <2> QED
    BY <1>5, <2>3, <2>4 DEF Time, Tick
<1>6. ASSUME NEW w \in Writer, WriterSteps(w)
      PROVE  TimeType'
  BY <1>1, <1>6 DEF WriterSteps, WriterCheck, WriterCtx, WriterPost, WriterLoad, WriterStore, WriterStep
<1>7. ASSUME NEW p \in Port, TxInterrupt(p) \/ TxCharsStart(p)
      PROVE  TimeType'
  BY <1>1, <1>7 DEF TxInterrupt, TxCharsStart, taskVars
<1>8. ASSUME NEW n \in 0 .. RxMax, RxInterrupt(n)
      PROVE  TimeType'
  BY <1>1, <1>8 DEF RxInterrupt
<1>9. ASSUME NEW f \in Callback, OtherTask(f)
      PROVE  TimeType'
  BY <1>1, <1>9 DEF OtherTask
<1> QED
  BY <1>2, <1>3, <1>4, <1>5, <1>6, <1>7, <1>8, <1>9
     DEF Next, Worker, Functions, Writer, UartRx, UartRxTimeout, ReadTail, Copy, Send, SendRefused, Sent, FlowOn,
         FreeTxSentData, SockRecvTimeout, UartTx, SocketCreate

LEMMA RestartType ==
  ASSUME NEW h \in Handler
  PROVE  /\ Restart(h) \in Seq(Own) /\ <<Timeout(h)>> \in Seq(Own) /\ <<Untimeout(h)>> \in Seq(Own)
         /\ <<>> \in Seq(Own)
<1>1. Timeout(h) \in Own /\ Untimeout(h) \in Own
  BY DEF Timeout, Untimeout, Own
<1> QED
  BY <1>1 DEF Restart

LEMMA ControlStep ==
  ASSUME TypeInv, CountInv, [Next]_vars
  PROVE  ControlType'
<1> DEFINE Place == Taking \cup {"loop", "wait", "tail", "net_send", "send", "sent", "flow", "writing"}
                    \cup StaticMsg \cup Callback \cup Handler
<1>0. todo \in Seq(Own) /\ pc \in Place
  BY DEF TypeInv
<1>1. ASSUME todo' \in Seq(Own), pc' \in Place
      PROVE  ControlType'
  BY <1>1 DEF ControlType
<1>2. /\ {"loop", "wait", "tail", "net_send", "send", "sent", "flow", "writing"} \subseteq Place
      /\ {"argu", "load", "store"} \subseteq Place /\ StaticMsg \subseteq Place
  BY DEF Taking
<1>3. /\ <<>> \in Seq(Own) /\ Restart(RxTimeout) \in Seq(Own) /\ <<Untimeout(RxTimeout)>> \in Seq(Own)
      /\ Restart("sock_recv_timeout") \in Seq(Own) /\ <<Timeout("sock_recv_timeout")>> \in Seq(Own)
  BY RestartType, Names
<1>4. ASSUME NEW m \in Message
      PROVE  m.of \in Place
  BY <1>4, MessageType
<1>5. ASSUME NEW e \in Entry
      PROVE  e.h \in Place
  BY <1>5 DEF Entry
<1> HIDE DEF Place
<1>6. CASE UNCHANGED vars
  BY <1>0, <1>1, <1>6 DEF vars, taskVars
<1>7. CASE Loop
  <2>1. CASE PostOwn
    <3>1. todo' = Tail(todo) /\ todo # <<>> /\ pc' = pc
      BY <2>1 DEF PostOwn
    <3>2. todo' \in Seq(Own)
      BY <1>0, <3>1, HeadType
    <3> QED
      BY <1>0, <1>1, <3>1, <3>2
  <2>2. CASE Fetch
    BY <1>0, <1>1, <1>2, <2>2 DEF Fetch
  <2>3. CASE Expire
    <3>1. Head(timers) \in Entry
      BY <2>3, HeadType DEF Expire, Expired, TypeInv, List
    <3> QED
      BY <1>0, <1>1, <1>5, <2>3, <3>1 DEF Expire
  <2>4. CASE ReceiveStatic \/ ReceiveCallback \/ ReceiveTimeout \/ ReceiveUntimeout
    <3>1. Receive
      BY <2>4 DEF ReceiveStatic, ReceiveCallback, ReceiveTimeout, ReceiveUntimeout
    <3>2. Head(mbox) \in Message /\ todo' = todo
      BY <3>1, HeadType DEF Receive, TypeInv
    <3>3. pc' = "loop" \/ pc' = "argu" \/ pc' = Head(mbox).of
      BY <2>4 DEF ReceiveStatic, ReceiveCallback, ReceiveTimeout, ReceiveUntimeout
    <3> QED
      BY <1>0, <1>1, <1>2, <1>4, <3>2, <3>3
  <2>5. CASE ReadCtx \/ LoadCnt \/ StoreCnt
    <3>1. todo' = todo /\ (pc' \in {"load", "store"} \/ pc' \in StaticMsg)
      BY <2>5 DEF ReadCtx, LoadCnt, StoreCnt, OfTaken, CountInv, Taking
    <3> QED
      BY <1>0, <1>1, <1>2, <3>1
  <2> QED
    BY <1>7, <2>1, <2>2, <2>3, <2>4, <2>5 DEF Loop, WorkerLoop
<1>8. CASE UartRx \/ UartRxTimeout \/ ReadTail \/ Copy \/ Send
  BY <1>0, <1>1, <1>2, <1>3, <1>8 DEF UartRx, UartRxTimeout, ReadTail, Copy, Send, RxTimeout
<1>9. CASE SendRefused
  BY <1>1, <1>2, <1>3, <1>9 DEF SendRefused, RxTimeout
<1>10. CASE Sent
  BY <1>1, <1>2, <1>3, <1>10 DEF Sent, RxTimeout
<1>11. CASE FlowOn
  BY <1>1, <1>2, <1>3, <1>11 DEF FlowOn, RxTimeout
<1>12. CASE FreeTxSentData \/ SockRecvTimeout \/ UartTx \/ SocketCreate
  BY <1>0, <1>1, <1>2, <1>3, <1>12 DEF FreeTxSentData, SockRecvTimeout, UartTx, SocketCreate
<1>13. ASSUME NEW w \in Writer, WriterSteps(w)
       PROVE  ControlType'
  <2>1. todo' = todo /\ (pc' = pc \/ pc' = "loop")
    BY <1>13 DEF WriterSteps, WriterCheck, WriterCtx, WriterPost, WriterLoad, WriterStore, WriterStep
  <2> QED
    BY <1>0, <1>1, <1>2, <2>1
<1>17. ASSUME NEW p \in Port, TxInterrupt(p) \/ TxCharsStart(p)
       PROVE  ControlType'
  BY <1>0, <1>1, <1>17 DEF TxInterrupt, TxCharsStart, taskVars
<1>14. CASE Time
  BY <1>0, <1>1, <1>14 DEF Time, Tick
<1>15. ASSUME NEW n \in 0 .. RxMax, RxInterrupt(n)
       PROVE  ControlType'
  BY <1>0, <1>1, <1>15 DEF RxInterrupt
<1>16. ASSUME NEW f \in Callback, OtherTask(f)
       PROVE  ControlType'
  BY <1>0, <1>1, <1>16 DEF OtherTask
<1> QED
  BY <1>6, <1>7, <1>8, <1>9, <1>10, <1>11, <1>12, <1>13, <1>14, <1>15, <1>16, <1>17
     DEF Next, Worker, Functions, Writer

LEMMA UartTypeStep ==
  ASSUME TypeInv, BytesInv, RingInv, CountInv, [Next]_vars
  PROVE  UartType'
<1> DEFINE NsType == [count : 0 .. BufSize - 1, buflen : 0 .. SendSize, from : 0 .. BufSize - 1]
<1>0. /\ flow \in BOOLEAN /\ rxOn \in BOOLEAN /\ overrun \in BOOLEAN
      /\ ring \in 0 .. BufSize - 1 /\ owed \in 0 .. BufSize - 1 /\ ns \in NsType
  BY DEF TypeInv
<1>1. /\ Idle \in NsType /\ [Idle EXCEPT !.count = ring] \in NsType
      /\ [ns EXCEPT !.from = 0] \in NsType
  <2>1. 0 \in 0 .. BufSize - 1 /\ 0 \in 0 .. SendSize
    BY Numbers
  <2> QED
    BY <1>0, <2>1 DEF Idle
<1>2. CASE Quiet
  BY <1>0, <1>2 DEF Quiet, uartVars, UartType
<1>3. ASSUME NEW n \in 0 .. RxMax, RxInterrupt(n)
      PROVE  UartType'
  <2>1. UNCHANGED <<flow, rxOn>> /\ overrun' \in BOOLEAN
    BY <1>3 DEF RxInterrupt
  <2>2. ns' \in NsType /\ ring' \in 0 .. BufSize - 1
    BY <1>3, Received
  <2>3. owed' \in 0 .. BufSize - 1
    <3>1. CASE overrun'
      BY <1>3, <3>1, Received, Numbers
    <3>2. CASE ~overrun'
      <4>1. ~overrun /\ owed' = owed + n /\ ring' = ring + n /\ n \in Nat
        BY <1>3, <3>2, Received, Numbers
      <4>2. owed <= ring
        BY <4>1, NsTypes DEF BytesInv
      <4>3. ring + n <= BufSize - 1
        BY <2>2, <4>1, NsTypes, Numbers
      <4> QED
        BY <4>1, <4>2, <4>3, NsTypes, Numbers
    <3> QED
      BY <3>1, <3>2
  <2> QED
    BY <1>0, <2>1, <2>2, <2>3 DEF UartType
<1>10. CASE ReadTail
  BY <1>0, <1>10 DEF ReadTail, uartVars, UartType
<1>4. CASE UartRx \/ UartRxTimeout
  <2>1. UNCHANGED <<flow, rxOn, ring, owed, overrun>>
        /\ (ns' = ns \/ ns' = [Idle EXCEPT !.count = ring])
    BY <1>4 DEF UartRx, UartRxTimeout
  <2> HIDE DEF NsType
  <2>2. ns' \in NsType
    BY <1>0, <1>1, <2>1
  <2> QED
    BY <1>0, <2>1, <2>2 DEF UartType, NsType
<1>5. CASE Copy
  <2>1. UNCHANGED <<flow, rxOn, ring, owed, overrun>>
        /\ ns' = [ns EXCEPT !.buflen = Min2(ns.count, SendSize), !.count = Monus(@, SendSize)]
    BY <1>5 DEF Copy
  <2>2. Min2(ns.count, SendSize) \in 0 .. SendSize /\ Monus(ns.count, SendSize) \in 0 .. BufSize - 1
    BY NsTypes, Numbers DEF Min2, Monus
  <2>3. ns' \in NsType
    BY <1>0, <2>1, <2>2
  <2> QED
    BY <1>0, <2>1, <2>3 DEF UartType
<1>6. CASE Send
  <2>1. UNCHANGED <<flow, rxOn, ring, ns, overrun>> /\ owed' = IF overrun THEN 0 ELSE owed - ns.buflen
    BY <1>6 DEF Send
  <2>2. owed' \in 0 .. BufSize - 1
    <3>1. CASE overrun
      BY <2>1, <3>1, Numbers
    <3>2. CASE ~overrun
      <4>1. owed = ring /\ ns.buflen + ns.count <= ring
        BY <1>6, <3>2, NsTypes DEF BytesInv, Send, AtFunction
      <4> QED
        BY <2>1, <3>2, <4>1, NsTypes, Numbers
    <3> QED
      BY <3>1, <3>2
  <2> QED
    BY <1>0, <2>1, <2>2 DEF UartType
<1>7. CASE SendRefused
  <2>1. UNCHANGED <<flow, ring, owed, overrun>> /\ rxOn' \in BOOLEAN /\ ns' = Idle
    BY <1>7 DEF SendRefused, RxStatus
  <2> QED
    BY <1>0, <1>1, <2>1 DEF UartType
<1>8. CASE Sent
  <2>1. /\ UNCHANGED <<flow, rxOn, owed, overrun>> /\ ring' = (ring - ns.buflen) % BufSize
        /\ ns' = [ns EXCEPT !.from = 0] \/ ns' = Idle
    BY <1>8 DEF Sent
  <2>2. ring' \in 0 .. BufSize - 1
    BY <2>1, NsTypes, Numbers, Remainder
  <2> HIDE DEF NsType
  <2>3. ns' \in NsType
    BY <1>1, <2>1
  <2> QED
    BY <1>0, <2>1, <2>2, <2>3 DEF UartType, NsType
<1>9. CASE FlowOn
  <2>1. UNCHANGED <<flow, ring, ns, owed, overrun>> /\ rxOn' \in BOOLEAN
    BY <1>0, <1>9 DEF FlowOn, RxStatus
  <2> QED
    BY <1>0, <2>1 DEF UartType
<1> QED
  BY <1>2, <1>3, <1>4, <1>5, <1>6, <1>7, <1>8, <1>9, <1>10, UartSteps

LEMMA TxTypeStep ==
  ASSUME TypeInv, CountInv, [Next]_vars
  PROVE  TxType'
<1> DEFINE Counts == [StaticMsg -> 0 .. CntMod - 1]
           Ctxs == [StaticMsg -> Ctx \cup {Null}]
<1>0. /\ cnt \in Counts /\ ctx \in Ctxs /\ taken \in TakenState
      /\ toFree \subseteq Port /\ raced \subseteq StaticMsg /\ astray \subseteq Ctx \cup {Null}
      /\ writer \in [Writer -> WriterState]
  BY DEF TypeInv
<1>1. ASSUME cnt' \in Counts, ctx' \in Ctxs, taken' \in TakenState,
             toFree' \subseteq Port, raced' \subseteq StaticMsg, astray' \subseteq Ctx \cup {Null},
             writer' \in [Writer -> WriterState]
      PROVE  TxType'
  BY <1>1 DEF TxType
<1>2. ASSUME UNCHANGED <<cnt, ctx, taken, toFree, raced, astray, writer>>
      PROVE  TxType'
  BY <1>0, <1>1, <1>2
<1>3. ASSUME NEW m \in StaticMsg, NEW x \in Int, cnt' = cnt \/ cnt' = [cnt EXCEPT ![m] = x % CntMod]
      PROVE  cnt' \in Counts
  <2>1. x % CntMod \in 0 .. CntMod - 1
    BY Numbers, Remainder
  <2> QED
    BY <1>0, <1>3, <2>1
<1>4. /\ Port \subseteq Ctx /\ "uart1" \in Ctx /\ SentData \in StaticMsg /\ "uart_rx" \in StaticMsg
      /\ ctx[SentData] \in Ctx \cup {Null} /\ 0 \in 0 .. CntMod - 1 /\ cnt[SentData] \in 0 .. CntMod - 1
  BY <1>0, Names, Numbers
<1>5. ASSUME NEW m \in StaticMsg, NEW c \in Ctx \cup {Null},
             ctx' = ctx \/ ctx' = [ctx EXCEPT ![m] = c]
      PROVE  ctx' \in Ctxs
  BY <1>0, <1>5
<1>6. ASSUME NEW p \in Ctx \cup {Null}
      PROVE  /\ Refused(p) \subseteq Ctx \cup {Null} /\ Redirected(p) \subseteq Ctx \cup {Null}
             /\ Redirected(p) \cup {p} \subseteq Ctx \cup {Null}
  BY <1>0, <1>4, <1>6 DEF Refused, Redirected
<1> HIDE DEF Counts, Ctxs
<1>7. ASSUME NEW m \in StaticMsg, NEW c \in Ctx, CallbackStatic(m, c)
      PROVE  cnt' \in Counts /\ ctx' \in Ctxs
  <2>1. cnt[m] + 1 \in Int /\ (cnt' = cnt \/ cnt' = [cnt EXCEPT ![m] = (cnt[m] + 1) % CntMod])
    BY <1>0, <1>7, Numbers DEF CallbackStatic, mboxVars, Counts
  <2>2. ctx' = ctx \/ ctx' = [ctx EXCEPT ![m] = c]
    BY <1>7 DEF CallbackStatic, mboxVars
  <2> QED
    BY <1>3, <1>5, <2>1, <2>2
<1>8. CASE UNCHANGED vars
  BY <1>2, <1>8 DEF vars, taskVars, mboxVars, txVars
<1>9. CASE Loop
  <2>1. UNCHANGED <<writer, toFree, astray>> /\ raced' \subseteq StaticMsg
    <3>1. /\ UNCHANGED <<writer, toFree, astray>>
          /\ raced' = IF pc = "store" THEN Lost(taken.of, taken.cnt) ELSE raced
      BY <1>9 DEF Loop
    <3>2. pc = "store" => Lost(taken.of, taken.cnt) \subseteq StaticMsg
      BY <1>0 DEF Lost, CountInv, Taking
    <3> QED
      BY <1>0, <3>1, <3>2
  <2>2. NotTaken \in TakenState
    BY <1>4 DEF NotTaken, TakenState
  <2>3. CASE ReceiveStatic
    <3> DEFINE m == Head(mbox).of
    <3>1. m \in StaticMsg /\ UNCHANGED <<cnt, ctx>> /\ taken' = [NotTaken EXCEPT !.of = m]
      BY <2>3, HeadType, MessageType DEF ReceiveStatic, Receive, TypeInv
    <3> HIDE DEF m
    <3>2. taken' \in TakenState
      BY <2>2, <3>1 DEF TakenState
    <3> QED
      BY <1>0, <1>1, <2>1, <3>1, <3>2
  <2>4. CASE ReadCtx \/ LoadCnt
    <3>1. taken.of \in StaticMsg /\ UNCHANGED <<cnt, ctx>>
      BY <2>4 DEF ReadCtx, LoadCnt, OfTaken, CountInv, Taking
    <3>2. ctx[taken.of] \in Ctx \cup {Null} /\ cnt[taken.of] \in 0 .. CntMod - 1
      BY <1>0, <3>1 DEF Ctxs, Counts
    <3>3. taken' = [taken EXCEPT !.argu = ctx[taken.of]] \/ taken' = [taken EXCEPT !.cnt = cnt[taken.of]]
      BY <2>4 DEF ReadCtx, LoadCnt
    <3>4. taken' \in TakenState
      BY <1>0, <3>2, <3>3 DEF TakenState
    <3> QED
      BY <1>0, <1>1, <2>1, <3>1, <3>4
  <2>5. CASE StoreCnt
    <3>1. /\ taken.of \in StaticMsg /\ UNCHANGED ctx
          /\ cnt' = [cnt EXCEPT ![taken.of] = (taken.cnt - 1) % CntMod]
          /\ taken' = [taken EXCEPT !.cnt = 0]
      BY <2>5 DEF StoreCnt, OfTaken, CountInv, Taking
    <3>2. taken' \in TakenState
      BY <1>0, <1>4, <3>1 DEF TakenState
    <3>3. taken.cnt - 1 \in Int
      BY CountTypes
    <3>4. cnt' \in Counts
      BY <1>3, <3>1, <3>3
    <3> QED
      BY <1>0, <1>1, <2>1, <3>1, <3>2, <3>4
  <2>6. CASE PostOwn \/ Fetch \/ Expire
    <3>1. UNCHANGED <<cnt, ctx>> /\ (taken' = taken \/ taken' = NotTaken)
      BY <2>6 DEF PostOwn, Fetch, Expire, mboxVars
    <3> QED
      BY <1>0, <1>1, <2>1, <2>2, <3>1
  <2>7. CASE ReceiveCallback \/ ReceiveTimeout \/ ReceiveUntimeout
    <3>1. UNCHANGED <<cnt, ctx, taken>>
      BY <2>7 DEF ReceiveCallback, ReceiveTimeout, ReceiveUntimeout, Receive
    <3> QED
      BY <1>0, <1>1, <2>1, <3>1
  <2> QED
    BY <1>9, <2>3, <2>4, <2>5, <2>6, <2>7 DEF Loop, WorkerLoop
<1>10. CASE UartRx \/ UartRxTimeout \/ ReadTail \/ Copy \/ Send
  BY <1>2, <1>10 DEF UartRx, UartRxTimeout, ReadTail, Copy, Send, AtFunction, mboxVars, txVars
<1>11. CASE SendRefused \/ Sent
  BY <1>2, <1>11 DEF SendRefused, Sent, AtFunction, mboxVars, txVars
<1>12. CASE FlowOn \/ SockRecvTimeout \/ SocketCreate
  BY <1>2, <1>12 DEF FlowOn, SockRecvTimeout, SocketCreate, AtFunction, mboxVars, txVars
<1>13. CASE FreeTxSentData
  <2>1. UNCHANGED <<cnt, ctx, taken, raced, astray, writer>> /\ toFree' \subseteq toFree
    BY <1>13 DEF FreeTxSentData, AtFunction, mboxVars
  <2> QED
    BY <1>0, <1>1, <2>1
<1>14. ASSUME NEW w \in Writer, NEW p \in Port,
              writer' = [writer EXCEPT ![w] = [NoWriter EXCEPT !.pc = "check", !.port = p]]
       PROVE  writer' \in [Writer -> WriterState]
  <2>1. [NoWriter EXCEPT !.pc = "check", !.port = p] \in WriterState
    BY <1>4 DEF NoWriter, WriterState
  <2> QED
    BY <1>0, <1>14, <2>1
<1>15. CASE UartTx
  <2>1. UNCHANGED <<cnt, ctx, taken, raced, astray>>
    BY <1>15 DEF UartTx, AtFunction, mboxVars
  <2>2. ASSUME NEW p \in Port, toFree' = toFree \cup {p},
               writer' = [writer EXCEPT !["worker"] = [NoWriter EXCEPT !.pc = "check", !.port = p]]
        PROVE  TxType'
    <3>1. writer' \in [Writer -> WriterState] /\ toFree' \subseteq Port
      BY <1>0, <1>14, <2>2 DEF Writer
    <3> QED
      BY <1>0, <1>1, <2>1, <3>1
  <2>3. CASE UNCHANGED <<writer, toFree>>
    BY <1>2, <2>1, <2>3
  <2> QED
    BY <1>15, <2>2, <2>3 DEF UartTx
<1>16. CASE Time
  BY <1>2, <1>16 DEF Time, Tick, mboxVars, txVars
<1>17. ASSUME NEW p \in Port, TxInterrupt(p)
       PROVE  TxType'
  <2>1. /\ CallbackStatic(SentData, p) /\ toFree' = toFree \cup {p} /\ UNCHANGED <<taken, writer, raced>>
        /\ \/ astray' = Refused(p) \/ astray' = Redirected(p) \cup {p} \/ astray' = Redirected(p) \ {p}
    BY <1>17 DEF TxInterrupt
  <2>2. cnt' \in Counts /\ ctx' \in Ctxs
    BY <1>4, <1>7, <2>1
  <2>3. astray' \subseteq Ctx \cup {Null} /\ toFree' \subseteq Port
    BY <1>0, <1>4, <1>6, <2>1
  <2> QED
    BY <1>0, <1>1, <2>1, <2>2, <2>3
<1>18. ASSUME NEW n \in 0 .. RxMax, RxInterrupt(n)
       PROVE  TxType'
  <2>1. CallbackStatic("uart_rx", "uart1") /\ UNCHANGED <<taken, toFree, raced, astray, writer>>
    BY <1>18 DEF RxInterrupt, txVars
  <2> QED
    BY <1>0, <1>1, <1>4, <1>7, <2>1
<1>19. ASSUME NEW f \in Callback, OtherTask(f)
       PROVE  TxType'
  BY <1>2, <1>19 DEF OtherTask, PostCallback, CallbackFails, CallbackNoMem, mboxVars, txVars
<1>20. ASSUME NEW w \in Writer, NEW from, NEW to \in {"idle", "check", "ctx", "post", "load", "store"},
              WriterStep(w, from, to)
       PROVE  writer' \in [Writer -> WriterState] /\ UNCHANGED <<taken, toFree>>
  <2> DEFINE r == IF to = "idle" THEN NoWriter
                  ELSE [writer[w] EXCEPT !.pc = to, !.cnt = IF to = "store" THEN cnt[SentData] ELSE 0]
  <2>1. writer' = [writer EXCEPT ![w] = r] /\ UNCHANGED <<taken, toFree>>
    BY <1>20 DEF WriterStep
  <2>2. writer[w] \in WriterState /\ NoWriter \in WriterState
    BY <1>0, <1>4 DEF NoWriter, WriterState
  <2>3. [writer[w] EXCEPT !.pc = to, !.cnt = IF to = "store" THEN cnt[SentData] ELSE 0] \in WriterState
    BY <1>4, <2>2 DEF WriterState
  <2>4. r \in WriterState
    BY <2>2, <2>3
  <2> HIDE DEF r
  <2> QED
    BY <1>0, <2>1, <2>4
<1>21. ASSUME NEW w \in Writer, WriterSteps(w)
       PROVE  TxType'
  <2>1. writer[w].port \in Ctx \cup {Null}
    <3>1. writer[w] \in WriterState
      BY <1>0
    <3> QED
      BY <1>4, <3>1 DEF WriterState
  <2>2. CASE WriterStore(w)
    <3>1. /\ WriterStep(w, "store", "idle") /\ UNCHANGED <<ctx, astray>> /\ raced' = Lost(SentData, writer[w].cnt)
          /\ cnt' = [cnt EXCEPT ![SentData] = (writer[w].cnt + 1) % CntMod]
      BY <2>2 DEF WriterStore
    <3>2. writer[w].cnt + 1 \in Int
      BY CountTypes
    <3>3. cnt' \in Counts
      BY <1>3, <1>4, <3>1, <3>2
    <3>4. raced' \subseteq StaticMsg
      BY <1>0, <1>4, <3>1 DEF Lost
    <3>5. writer' \in [Writer -> WriterState] /\ UNCHANGED <<taken, toFree>>
      BY <1>20, <3>1
    <3> QED
      BY <1>0, <1>1, <3>1, <3>3, <3>4, <3>5
  <2>3. CASE ~WriterStore(w)
    <3>1. /\ UNCHANGED <<cnt, raced>>
          /\ \E from, to \in {"idle", "check", "ctx", "post", "load", "store"} : WriterStep(w, from, to)
      BY <1>21, <2>3 DEF WriterSteps, WriterCheck, WriterCtx, WriterPost, WriterLoad
    <3>2. writer' \in [Writer -> WriterState] /\ UNCHANGED <<taken, toFree>>
      BY <1>20, <3>1
    <3>3. ctx' = ctx \/ ctx' = [ctx EXCEPT ![SentData] = writer[w].port]
      BY <1>21, <2>3 DEF WriterSteps, WriterCheck, WriterCtx, WriterPost, WriterLoad
    <3>4. ctx' \in Ctxs
      BY <1>4, <1>5, <2>1, <3>3
    <3>5. \/ astray' = astray \/ astray' = Refused(writer[w].port) \/ astray' = Redirected(writer[w].port)
          \/ astray' = astray \ {writer[w].port} \/ astray' = astray \cup {writer[w].port}
      BY <1>21, <2>3 DEF WriterSteps, WriterCheck, WriterCtx, WriterPost, WriterLoad
    <3>6. astray' \subseteq Ctx \cup {Null}
      <4>1. Refused(writer[w].port) \subseteq Ctx \cup {Null} /\ Redirected(writer[w].port) \subseteq Ctx \cup {Null}
        BY <1>6, <2>1
      <4> QED
        BY <1>0, <2>1, <3>5, <4>1
    <3> QED
      BY <1>0, <1>1, <3>1, <3>2, <3>4, <3>6
  <2> QED
    BY <2>2, <2>3
<1>22. ASSUME NEW p \in Port, TxCharsStart(p)
       PROVE  TxType'
  <2>1. /\ UNCHANGED <<cnt, ctx, taken, raced, astray>> /\ toFree' = toFree \cup {p}
        /\ writer' = [writer EXCEPT !["task"] = [NoWriter EXCEPT !.pc = "check", !.port = p]]
    BY <1>22 DEF TxCharsStart, taskVars, mboxVars
  <2>2. writer' \in [Writer -> WriterState] /\ toFree' \subseteq Port
    BY <1>0, <1>14, <2>1 DEF Writer
  <2> QED
    BY <1>0, <1>1, <2>1, <2>2
<1> QED
  BY <1>8, <1>9, <1>10, <1>11, <1>12, <1>13, <1>15, <1>16, <1>17, <1>18, <1>19, <1>21, <1>22
     DEF Next, Worker, Functions, Writer

LEMMA TypeStep ==
  ASSUME TypeInv, BytesInv, RingInv, CountInv, [Next]_vars
  PROVE  TypeInv'
<1>1. MailType' /\ TimeType' /\ ControlType' /\ UartType' /\ TxType'
  BY TypeParts, MailStep, TimeStep, ControlStep, UartTypeStep, TxTypeStep
<1> QED
  BY <1>1 DEF TypeInv, MailType, TimeType, ControlType, UartType, TxType

-----------------------------------------------------------------------------
(* The timeout list                                                        *)

Punctual(list) == \A i \in 1 .. Len(list) : list[i].due <= TimeTo(list, i)

LEMMA Product ==
  ASSUME NEW a \in Nat, NEW b \in Nat, NEW c \in Nat
  PROVE  /\ a * c \in Nat /\ b * c \in Nat /\ (a + 1) * c = a * c + c
         /\ a <= b => a * c <= b * c
<1>1. a * c \in Nat /\ b * c \in Nat /\ (a + 1) * c = a * c + c
  OBVIOUS
<1>2. ASSUME a <= b PROVE a * c <= b * c
  <2>1. PICK d \in Nat : b = a + d
    BY <1>2
  <2>2. b * c = a * c + d * c /\ d * c \in Nat
    BY <2>1
  <2> QED
    BY <1>1, <2>2
<1> QED
  BY <1>1, <1>2

(* A wait of the ticks tls_arch_mbox_fetch computed is short by less than  *)
(* a tick.                                                                 *)
LEMMA InTicks ==
  ASSUME NEW t \in Nat, NEW e \in Nat, InTimeout(t) <= e
  PROVE  e * TickMs \in Nat /\ e * TickMs > t - TickMs
<1> DEFINE q == t \div TickMs
<1>1. q \in Nat /\ t < q * TickMs + TickMs
  BY Numbers
<1>2. q <= e
  BY <1>1, Numbers DEF InTimeout
<1> HIDE DEF q
<1>3. q * TickMs <= e * TickMs /\ q * TickMs \in Nat /\ e * TickMs \in Nat
  BY <1>1, <1>2, Product, Numbers
<1> QED
  BY <1>1, <1>3, Numbers

LEMMA ElapsedType ==
  ASSUME TypeInv
  PROVE  /\ Elapsed \in Nat /\ Elapsed * TickMs \in Nat /\ TicksElapsed <= Elapsed
         /\ TicksElapsed \in Nat /\ TicksElapsed * TickMs \in Nat
         /\ TicksElapsed * TickMs <= Elapsed * TickMs
<1>1. Elapsed \in Nat /\ TicksElapsed <= Elapsed /\ TicksElapsed \in Nat
  BY TypeParts, WaitTypes, Numbers DEF Elapsed, TicksElapsed
<1> QED
  BY <1>1, Product, Numbers

(* The time waited, less what the wrap of the counter forgets, comes off   *)
(* every expiry time.                                                      *)
LEMMA WaitedPunctual ==
  ASSUME TypeInv, TimerInv, pc = "wait"
  PROVE  Waited \in List /\ Punctual(Waited)
<1>1. Waited \in List /\ timers \in List
  BY TypeParts, WaitedType DEF TypeInv
<1>2. CASE timers = <<>>
  BY <1>1, <1>2 DEF Waited, Punctual
<1>3. CASE timers # <<>>
  <2> DEFINE w == TicksElapsed * TickMs
             x == Elapsed * TickMs
  <2>1. w \in Nat /\ x \in Nat /\ w <= x
    BY ElapsedType
  <2>2. \A i \in 1 .. Len(timers) : timers[i].due <= Monus(TimeTo(timers, i), x)
    BY <1>3 DEF TimerInv
  <2>3. Waited = [timers EXCEPT ![1].time = Monus(@, w)]
    BY <1>3 DEF Waited
  <2> HIDE DEF w, x
  <2>4. /\ Len(Waited) = Len(timers)
        /\ \A i \in 1 .. Len(timers) :
              /\ Waited[i].due = timers[i].due
              /\ TimeTo(Waited, i) = TimeTo(timers, i) - timers[1].time + Monus(timers[1].time, w)
    <3> DEFINE m == [timers EXCEPT ![1].time = Monus(@, w)]
    <3>1. /\ Len(m) = Len(timers)
          /\ \A i \in 1 .. Len(timers) :
                /\ m[i].due = timers[i].due
                /\ TimeTo(m, i) = TimeTo(timers, i) - timers[1].time + Monus(timers[1].time, w)
      BY <1>1, <1>3, <2>1, WaitedList
    <3>2. Waited = m
      BY <2>3
    <3> HIDE DEF m
    <3> QED
      BY <3>1, <3>2
  <2>5. ASSUME NEW i \in 1 .. Len(Waited)
        PROVE  Waited[i].due <= TimeTo(Waited, i)
    <3>1. /\ i \in 1 .. Len(timers) /\ i \in 0 .. Len(timers) /\ i \in 0 .. Len(Waited)
          /\ 1 \in 1 .. Len(timers)
      BY <1>1, <2>4, ListType
    <3>2. /\ TimeTo(timers, i) \in Nat /\ TimeTo(Waited, i) \in Nat
          /\ timers[i].due \in Nat /\ timers[1].time \in Nat
      BY <1>1, <3>1, TimeToType, ListType
    <3>3. timers[i].due <= Monus(TimeTo(timers, i), x)
      BY <2>2, <3>1
    <3>4. /\ Waited[i].due = timers[i].due
          /\ TimeTo(Waited, i) = TimeTo(timers, i) - timers[1].time + Monus(timers[1].time, w)
      BY <2>4, <3>1
    <3> DEFINE a == TimeTo(timers, i)
               b == TimeTo(Waited, i)
               c == timers[1].time
               d == timers[i].due
    <3> HIDE DEF a, b, c, d
    <3>5. a \in Nat /\ b \in Nat /\ c \in Nat /\ d \in Nat /\ d <= Monus(a, x) /\ b = a - c + Monus(c, w)
      BY <3>2, <3>3, <3>4 DEF a, b, c, d
    <3>6. d <= b
      BY <2>1, <3>5 DEF Monus
    <3> QED
      BY <3>4, <3>6 DEF b, d
  <2> QED
    BY <1>1, <2>5 DEF Punctual
<1> QED
  BY <1>2, <1>3

LEMMA TimeoutPunctual ==
  ASSUME NEW list \in List, Punctual(list), NEW h \in Handler
  PROVE  Punctual(TimeoutP(list, h))
<1> DEFINE m == TimeoutP(list, h)
<1>1. PICK k \in 0 .. Len(list) :
         /\ Len(m) = Len(list) + 1
         /\ m[k + 1].due = Delay[h] /\ TimeTo(m, k + 1) = Delay[h]
         /\ \A i \in 1 .. k : Kept(m, i, list, i)
         /\ \A i \in k + 1 .. Len(list) : Kept(m, i + 1, list, i)
  BY TimeoutPList
<1> HIDE DEF m
<1>2. Len(list) \in Nat /\ Delay[h] \in Nat
  BY ListType, WlTaskAssumption
<1>3. ASSUME NEW i \in 1 .. Len(m)
      PROVE  m[i].due <= TimeTo(m, i)
  <2>1. CASE i <= k
    BY <1>1, <1>2, <1>3, <2>1 DEF Kept, Punctual
  <2>2. CASE i = k + 1
    BY <1>1, <1>2, <2>2
  <2>3. CASE i > k + 1
    <3>1. i - 1 \in k + 1 .. Len(list) /\ (i - 1) + 1 = i
      BY <1>1, <1>2, <1>3, <2>3
    <3>2. Kept(m, (i - 1) + 1, list, i - 1)
      BY <1>1, <3>1
    <3>3. list[i - 1].due <= TimeTo(list, i - 1)
      BY <1>1, <1>2, <3>1 DEF Punctual
    <3> QED
      BY <3>1, <3>2, <3>3 DEF Kept
  <2> QED
    BY <1>1, <1>2, <1>3, <2>1, <2>2, <2>3
<1> QED
  BY <1>3 DEF Punctual, m

LEMMA UntimeoutPunctual ==
  ASSUME NEW list \in List, Punctual(list), NEW h \in Handler
  PROVE  Punctual(UntimeoutP(list, h))
<1>1. CASE \E i \in 1 .. Len(list) : list[i].h = h
  <2> DEFINE m == UntimeoutP(list, h)
  <2>1. PICK k \in 1 .. Len(list) :
           /\ Len(m) = Len(list) - 1
           /\ \A i \in 1 .. k - 1 : Kept(m, i, list, i)
           /\ \A i \in k + 1 .. Len(list) : Kept(m, i - 1, list, i)
    BY <1>1, UntimeoutPList
  <2> HIDE DEF m
  <2>2. Len(list) \in Nat
    BY ListType
  <2>3. ASSUME NEW i \in 1 .. Len(m)
        PROVE  m[i].due <= TimeTo(m, i)
    <3>1. CASE i < k
      BY <2>1, <2>2, <2>3, <3>1 DEF Kept, Punctual
    <3>2. CASE i >= k
      <4>1. i + 1 \in k + 1 .. Len(list) /\ (i + 1) - 1 = i
        BY <2>1, <2>2, <2>3, <3>2
      <4>2. Kept(m, (i + 1) - 1, list, i + 1)
        BY <2>1, <4>1
      <4>3. list[i + 1].due <= TimeTo(list, i + 1)
        BY <2>1, <2>2, <4>1 DEF Punctual
      <4> QED
        BY <4>1, <4>2, <4>3 DEF Kept
    <3> QED
      BY <2>1, <2>2, <2>3, <3>1, <3>2
  <2> QED
    BY <2>3 DEF Punctual, m
<1>2. CASE ~\E i \in 1 .. Len(list) : list[i].h = h
  <2>1. {i \in DOMAIN list : list[i].h = h} = {}
    BY <1>2, ListType
  <2> QED
    BY <2>1 DEF UntimeoutP
<1> QED
  BY <1>1, <1>2

LEMMA DueAfterExpiry ==
  ASSUME NEW d \in Nat, NEW e \in Nat, NEW x \in Nat, NEW t \in Nat,
         d <= Monus(x, t) + e, x - t \in Nat
  PROVE  Monus(d, e) <= x - t
BY DEF Monus

(* An expired timeout was due but for less than a tick, and its own time   *)
(* comes off the others.                                                   *)
LEMMA ExpirePunctual ==
  ASSUME TypeInv, TimerInv, Expire
  PROVE  timers[1].due < TickMs /\ Punctual(timers')
<1> DEFINE x == Elapsed * TickMs
           t == timers[1].time
           e == TickMs - 1
<1>1. /\ timers # <<>> /\ timers \in List /\ Head(timers) = timers[1]
      /\ timers' = [i \in 1 .. Len(timers) - 1 |-> [timers[i + 1] EXCEPT !.due = Monus(@, e)]]
  BY DEF Expire, Expired, TypeInv, List
<1>2. /\ Len(timers) \in Nat /\ 1 \in 1 .. Len(timers) /\ e \in Nat
      /\ \A i \in 1 .. Len(timers) : /\ timers[i].due \in Nat /\ timers[i].time \in Nat
                                     /\ TimeTo(timers, i) \in Nat
  <2>1. Len(timers) \in Nat /\ 1 \in 1 .. Len(timers)
    BY <1>1 DEF List
  <2>2. \A i \in 1 .. Len(timers) : i \in 0 .. Len(timers)
    BY <2>1
  <2>3. \A i \in 1 .. Len(timers) : timers[i].due \in Nat /\ timers[i].time \in Nat
    BY <1>1, ListType
  <2>4. \A i \in 1 .. Len(timers) : TimeTo(timers, i) \in Nat
    BY <1>1, <2>2, TimeToType
  <2>5. e \in Nat
    BY Numbers
  <2> QED
    BY <2>1, <2>3, <2>4, <2>5
<1>3. t \in Nat /\ TimeTo(timers, 1) = t
  <2>1. TimeTo(timers, 1) = TimeTo(timers, 1 - 1) + timers[1].time /\ TimeTo(timers, 0) = 0
    BY <1>1, <1>2, TimeToStep
  <2> QED
    BY <1>2, <2>1
<1>4. \A i \in 1 .. Len(timers) : timers[i].due <= Monus(TimeTo(timers, i), t) + e
  <2>1. CASE wait.left = Forever
    <3>1. t = 0
      BY <1>1, <2>1 DEF Expire, Expired, TimerInv, Forever
    <3>2. \A i \in 1 .. Len(timers) : timers[i].due <= TimeTo(timers, i)
      BY <2>1 DEF TimerInv
    <3> HIDE DEF t, e
    <3> QED
      BY <1>2, <3>1, <3>2 DEF Monus
  <2>2. CASE wait.left # Forever
    <3>1. wait.left = 0
      BY <2>2 DEF Expire, Expired, TimerInv
    <3>2. Elapsed \in Nat /\ x \in Nat
      BY ElapsedType
    <3>3. Monus(InTimeout(t), Elapsed) = 0 /\ InTimeout(t) \in Nat
      <4>1. InTimeout(t) \in Nat
        BY <1>3, Numbers DEF InTimeout
      <4> QED
        BY <2>2, <3>1, <4>1 DEF TimerInv
    <3>4. InTimeout(t) <= Elapsed
      BY <3>2, <3>3 DEF Monus
    <3>5. x > t - TickMs
      BY <1>3, <3>2, <3>4, InTicks
    <3>6. \A i \in 1 .. Len(timers) : timers[i].due <= Monus(TimeTo(timers, i), x)
      BY <2>2 DEF TimerInv
    <3>7. x >= t - e
      <4> HIDE DEF x, t
      <4> QED
        BY <1>3, <3>2, <3>5, Numbers
    <3> HIDE DEF x, t, e
    <3>8. ASSUME NEW i \in 1 .. Len(timers)
          PROVE  timers[i].due <= Monus(TimeTo(timers, i), t) + e
      <4>1. timers[i].due \in Nat /\ TimeTo(timers, i) \in Nat
        BY <1>2
      <4>2. timers[i].due <= Monus(TimeTo(timers, i), x)
        BY <3>6
      <4> QED
        BY <1>2, <1>3, <3>2, <3>7, <4>1, <4>2 DEF Monus
    <3> QED
      BY <3>8
  <2> QED
    BY <2>1, <2>2
<1>5. timers[1].due < TickMs
  <2>1. timers[1].due <= Monus(t, t) + e
    BY <1>2, <1>3, <1>4
  <2> QED
    BY <1>2, <1>3, <2>1, Numbers DEF Monus
<1>6. /\ timers' \in List /\ Len(timers') = Len(timers) - 1
      /\ \A i \in 1 .. Len(timers) - 1 :
            /\ timers'[i].due = Monus(timers[i + 1].due, e)
            /\ TimeTo(timers', i) = TimeTo(timers, i + 1) - t
  <2> HIDE DEF e
  <2> QED
    BY <1>1, <1>2, ExpiredList
<1> HIDE DEF t, e
<1>7. ASSUME NEW i \in 1 .. Len(timers')
      PROVE  timers'[i].due <= TimeTo(timers', i)
  <2>1. i \in 1 .. Len(timers) - 1 /\ i + 1 \in 1 .. Len(timers) /\ i \in 0 .. Len(timers')
    BY <1>2, <1>6
  <2>2. timers'[i].due = Monus(timers[i + 1].due, e) /\ TimeTo(timers', i) = TimeTo(timers, i + 1) - t
    BY <1>6, <2>1
  <2>3. TimeTo(timers', i) \in Nat
    BY <1>6, <2>1, TimeToType
  <2>4. timers[i + 1].due \in Nat /\ TimeTo(timers, i + 1) \in Nat
    BY <1>2, <2>1
  <2>5. timers[i + 1].due <= Monus(TimeTo(timers, i + 1), t) + e
    BY <1>4, <2>1
  <2>6. t \in Nat /\ e \in Nat
    BY <1>2, <1>3
  <2>7. Monus(timers[i + 1].due, e) <= TimeTo(timers, i + 1) - t
    BY <2>2, <2>3, <2>4, <2>5, <2>6, DueAfterExpiry
  <2> QED
    BY <2>2, <2>7
<1> QED
  BY <1>5, <1>7 DEF Punctual

LEMMA TickElapsed ==
  ASSUME TypeInv, wait.left # Forever, (wait.now + 1) % TickMod # wait.start,
         wait' = [wait EXCEPT !.now = (@ + 1) % TickMod, !.left = Monus(@, 1)]
  PROVE  Elapsed' = Elapsed + 1 /\ wait'.left = Monus(wait.left, 1)
<1>1. /\ wait.start \in Nat /\ wait.start < TickMod /\ wait.now \in Nat /\ wait.now < TickMod
  BY TypeParts, WaitTypes
<1>2. /\ wait'.now = (wait.now + 1) % TickMod /\ wait'.start = wait.start
      /\ wait'.left = Monus(wait.left, 1)
  <2>1. wait = [start |-> wait.start, now |-> wait.now, left |-> wait.left]
    BY TypeParts, WaitTypes
  <2> QED
    BY <2>1
<1>3. CASE wait.now + 1 < TickMod
  <2>1. wait'.now = wait.now + 1 /\ wait.now + 1 # wait.start
    BY <1>1, <1>2, <1>3, Remainder, Numbers
  <2> QED
    BY <1>1, <1>2, <2>1, Numbers DEF Elapsed
<1>4. CASE wait.now + 1 = TickMod
  <2>1. wait'.now = 0 /\ wait.start # 0
    BY <1>1, <1>2, <1>4, Remainder, Numbers
  <2> QED
    BY <1>1, <1>2, <1>4, <2>1, Numbers DEF Elapsed
<1> QED
  BY <1>1, <1>3, <1>4, Numbers

LEMMA TimerStep ==
  ASSUME TypeInv, CountInv, TimerInv, [Next]_vars
  PROVE  TimerInv'
<1>0. Forever = -1 /\ timers \in List
  BY DEF Forever, TypeInv
<1>1. ASSUME UNCHANGED <<timers, wait>>, pc' = pc \/ (pc # "wait" /\ pc' # "wait")
      PROVE  TimerInv'
  BY <1>1 DEF TimerInv, Elapsed
<1>2. CASE UNCHANGED vars
  BY <1>1, <1>2 DEF vars, taskVars
<1>3. ASSUME wait' = NoWait, pc' # "wait", Punctual(timers')
      PROVE  TimerInv'
  BY <1>3 DEF TimerInv, NoWait, Punctual
<1>4. CASE Loop
  <2>1. CASE PostOwn
    BY <1>1, <2>1 DEF PostOwn
  <2>2. CASE Fetch
    <3>1. timers' = timers /\ pc' = "wait" /\ wait.left = Forever
      BY <2>2 DEF Fetch, TimerInv
    <3>2. Punctual(timers)
      BY <3>1 DEF TimerInv, Punctual
    <3>3. CASE timers = <<>> /\ wait' = NoWait
      BY <3>1, <3>2, <3>3 DEF TimerInv, NoWait, Punctual
    <3>4. CASE timers # <<>>
      <4>1. Head(timers) = timers[1]
        BY <1>0, <3>4 DEF List
      <4>2. PICK t \in 0 .. TickMod - 1 :
                wait' = [start |-> t, now |-> t, left |-> InTimeout(timers[1].time)]
        BY <2>2, <3>4, <4>1 DEF Fetch
      <4>3. Elapsed' = 0 /\ Elapsed' * TickMs = 0
        BY <4>2, Numbers DEF Elapsed
      <4>4. 1 \in 1 .. Len(timers)
        BY <1>0, <3>4 DEF List
      <4>5. InTimeout(timers[1].time) \in Nat
        <5>1. timers[1].time \in Nat
          BY <1>0, <4>4, ListType
        <5> QED
          BY <5>1, Numbers DEF InTimeout
      <4>6. \A i \in 1 .. Len(timers) : TimeTo(timers, i) \in Nat
        <5>1. Len(timers) \in Nat /\ \A i \in 1 .. Len(timers) : i \in 0 .. Len(timers)
          BY <1>0, ListType
        <5> QED
          BY <1>0, <5>1, TimeToType
      <4>7. \A i \in 1 .. Len(timers) : timers[i].due <= Monus(TimeTo(timers, i), 0)
        BY <3>2, <4>6 DEF Punctual, Monus
      <4>8. wait'.left = Monus(InTimeout(timers[1].time), 0) /\ wait'.left # Forever
        BY <1>0, <4>2, <4>5 DEF Monus
      <4> QED
        BY <3>1, <3>4, <4>3, <4>7, <4>8 DEF TimerInv
    <3> QED
      BY <2>2, <3>3, <3>4 DEF Fetch
  <2>3. CASE Expire
    <3>1. Head(timers) \in Entry
      BY <2>3, HeadType DEF Expire, Expired, TypeInv, List
    <3>2. pc' # "wait" /\ wait' = NoWait
      BY <2>3, <3>1, Names DEF Expire, Entry, RxTimeout
    <3> QED
      BY <1>3, <2>3, <3>2, ExpirePunctual
  <2>4. CASE ReceiveStatic \/ ReceiveCallback \/ ReceiveTimeout \/ ReceiveUntimeout
    <3>1. Receive
      BY <2>4 DEF ReceiveStatic, ReceiveCallback, ReceiveTimeout, ReceiveUntimeout
    <3>2. Head(mbox) \in Message /\ pc = "wait" /\ wait' = NoWait
      BY <3>1, HeadType DEF Receive, TypeInv
    <3>3. pc' # "wait"
      BY <2>4, <3>2, MessageType, Names
         DEF ReceiveStatic, ReceiveCallback, ReceiveTimeout, ReceiveUntimeout, RxTimeout, SentData
    <3>4. Waited \in List /\ Punctual(Waited)
      BY <3>2, WaitedPunctual
    <3>5. Punctual(timers')
      <4>1. CASE timers' = Waited
        BY <3>4, <4>1
      <4>2. CASE Head(mbox).type = "timeout" /\ timers' = TimeoutP(Waited, Head(mbox).of)
        <5>1. Head(mbox).of \in Handler
          BY <3>2, <4>2, MessageType
        <5> QED
          BY <3>4, <4>2, <5>1, TimeoutPunctual
      <4>3. CASE Head(mbox).type = "untimeout" /\ timers' = UntimeoutP(Waited, Head(mbox).of)
        <5>1. Head(mbox).of \in Handler
          BY <3>2, <4>3, MessageType
        <5> QED
          BY <3>4, <4>3, <5>1, UntimeoutPunctual
      <4> QED
        BY <2>4, <4>1, <4>2, <4>3 DEF ReceiveStatic, ReceiveCallback, ReceiveTimeout, ReceiveUntimeout
    <3> QED
      BY <1>3, <3>2, <3>3, <3>5
  <2>5. CASE ReadCtx \/ LoadCnt \/ StoreCnt
    <3>1. pc # "wait" /\ UNCHANGED <<timers, wait>> /\ pc' \in {"load", "store"} \cup StaticMsg
      BY <2>5 DEF ReadCtx, LoadCnt, StoreCnt, OfTaken, CountInv, Taking
    <3> QED
      BY <1>1, <3>1, Names DEF SentData
  <2> QED
    BY <1>4, <2>1, <2>2, <2>3, <2>4, <2>5 DEF Loop, WorkerLoop
<1>5. CASE Time
  <2>1. timers' = [i \in DOMAIN timers |-> [timers[i] EXCEPT !.due = Monus(@, TickMs)]] /\ pc' = pc
    BY <1>5 DEF Time, Tick
  <2>2. /\ timers' \in List /\ Len(timers') = Len(timers) /\ Len(timers) \in Nat
        /\ \A i \in 1 .. Len(timers) :
              /\ timers'[i].time = timers[i].time /\ timers'[i].due = Monus(timers[i].due, TickMs)
              /\ TimeTo(timers', i) = TimeTo(timers, i)
    <3>1. Len(timers) \in Nat
      BY <1>0, ListType
    <3>2. TickMs \in Nat
      BY Numbers
    <3> QED
      BY <1>0, <2>1, <3>1, <3>2, TickList
  <2>3. \A i \in 1 .. Len(timers) : timers[i].due \in Nat /\ TimeTo(timers, i) \in Nat
    <3>1. \A i \in 1 .. Len(timers) : i \in 0 .. Len(timers)
      BY <2>2
    <3> QED
      BY <1>0, <3>1, ListType, TimeToType
  <2>4. timers' = <<>> <=> timers = <<>>
    BY <1>0, <2>2 DEF List
  <2>5. CASE wait.left = Forever /\ wait' = wait
    <3>1. \A i \in 1 .. Len(timers) : timers[i].due <= TimeTo(timers, i)
      BY <2>5 DEF TimerInv
    <3>2. \A i \in 1 .. Len(timers') : timers'[i].due <= TimeTo(timers', i)
      BY <2>2, <2>3, <3>1, Numbers DEF Monus
    <3> QED
      BY <2>1, <2>4, <2>5, <3>2 DEF TimerInv
  <2>6. CASE /\ wait.left # Forever /\ (wait.now + 1) % TickMod # wait.start
             /\ wait' = [wait EXCEPT !.now = (@ + 1) % TickMod, !.left = Monus(@, 1)]
    <3> DEFINE E == Elapsed
               x == E * TickMs
               y == (E + 1) * TickMs
    <3>1. Elapsed' = E + 1 /\ wait'.left = Monus(wait.left, 1)
      BY <2>6, TickElapsed
    <3>2. E \in Nat /\ x \in Nat /\ y = x + TickMs /\ Elapsed' * TickMs = y
      BY <3>1, ElapsedType, Product, Numbers
    <3>3. /\ timers # <<>> /\ wait.left = Monus(InTimeout(timers[1].time), E)
          /\ \A i \in 1 .. Len(timers) : timers[i].due <= Monus(TimeTo(timers, i), x)
      BY <2>6 DEF TimerInv
    <3>4. 1 \in 1 .. Len(timers) /\ InTimeout(timers[1].time) \in Nat
      <4>1. 1 \in 1 .. Len(timers)
        BY <1>0, <3>3 DEF List
      <4> QED
        BY <1>0, <4>1, ListType, Numbers DEF InTimeout
    <3> HIDE DEF E, x, y
    <3>5. timers'[1].time = timers[1].time
      BY <2>2, <3>4
    <3>6. wait'.left = Monus(InTimeout(timers'[1].time), Elapsed') /\ wait'.left # Forever
      BY <1>0, <3>1, <3>2, <3>3, <3>4, <3>5 DEF Monus
    <3>7. ASSUME NEW i \in 1 .. Len(timers')
          PROVE  timers'[i].due <= Monus(TimeTo(timers', i), Elapsed' * TickMs)
      <4>1. /\ i \in 1 .. Len(timers) /\ timers[i].due \in Nat /\ TimeTo(timers, i) \in Nat
            /\ timers[i].due <= Monus(TimeTo(timers, i), x)
            /\ timers'[i].due = Monus(timers[i].due, TickMs) /\ TimeTo(timers', i) = TimeTo(timers, i)
        BY <2>2, <2>3, <3>3
      <4>2. Monus(timers[i].due, TickMs) <= Monus(TimeTo(timers, i), y)
        BY <3>2, <4>1, Numbers DEF Monus
      <4> QED
        BY <3>2, <4>1, <4>2
    <3>8. pc' = "wait"
      BY <2>1, <2>6 DEF TimerInv
    <3> QED
      BY <2>4, <3>3, <3>6, <3>7, <3>8 DEF TimerInv
  <2> QED
    BY <1>5, <2>5, <2>6 DEF Time, Tick
<1>6. CASE UartRx \/ UartRxTimeout \/ ReadTail \/ Copy \/ Send
  BY <1>1, <1>6 DEF UartRx, UartRxTimeout, ReadTail, Copy, Send, AtFunction
<1>7. CASE SendRefused \/ Sent \/ FlowOn
  BY <1>1, <1>7 DEF SendRefused, Sent, FlowOn, AtFunction
<1>8. CASE FreeTxSentData \/ SockRecvTimeout \/ UartTx \/ SocketCreate
  BY <1>1, <1>8 DEF FreeTxSentData, SockRecvTimeout, UartTx, SocketCreate, AtFunction, SentData
<1>9. ASSUME NEW w \in Writer, WriterSteps(w)
      PROVE  TimerInv'
  <2>1. UNCHANGED <<timers, wait>>
    BY <1>9 DEF WriterSteps, WriterCheck, WriterCtx, WriterPost, WriterLoad, WriterStore, WriterStep
  <2>2. pc' = pc \/ (w = "worker" /\ writer[w].pc # "idle" /\ pc' = "loop")
    BY <1>9 DEF WriterSteps, WriterCheck, WriterCtx, WriterPost, WriterLoad, WriterStore, WriterStep
  <2> QED
    BY <1>1, <2>1, <2>2 DEF CountInv
<1>10. ASSUME NEW p \in Port, TxInterrupt(p) \/ TxCharsStart(p)
       PROVE  TimerInv'
  BY <1>1, <1>10 DEF TxInterrupt, TxCharsStart, taskVars
<1>11. ASSUME NEW n \in 0 .. RxMax, RxInterrupt(n)
       PROVE  TimerInv'
  BY <1>1, <1>11 DEF RxInterrupt
<1>12. ASSUME NEW f \in Callback, OtherTask(f)
       PROVE  TimerInv'
  BY <1>1, <1>12 DEF OtherTask
<1> QED
  BY <1>2, <1>4, <1>5, <1>6, <1>7, <1>8, <1>9, <1>10, <1>11, <1>12 DEF Next, Worker, Functions, Writer

-----------------------------------------------------------------------------
(* Who sees to the bytes in the ring buffer                                *)

NoneAbout(q, h) == \A i \in 1 .. Len(q) : q[i].of # h
LastSets(q, h) == \E i \in 1 .. Len(q) : /\ q[i].of = h /\ q[i].type = "timeout"
                                         /\ \A j \in 1 .. Len(q) : q[j].of = h => j <= i
Listed(list, h) == \E i \in 1 .. Len(list) : list[i].h = h

LEMMA AboutConcat ==
  ASSUME NEW S, NEW p \in Seq(S), NEW q \in Seq(S), NEW h
  PROVE  /\ NoneAbout(p \o q, h) <=> NoneAbout(p, h) /\ NoneAbout(q, h)
         /\ LastSets(p \o q, h) <=> LastSets(q, h) \/ (NoneAbout(q, h) /\ LastSets(p, h))
<1> DEFINE r == p \o q
           m == Len(p)
           n == Len(q)
<1>1. /\ m \in Nat /\ n \in Nat /\ Len(r) = m + n
      /\ \A i \in 1 .. m : r[i] = p[i] /\ i \in 1 .. Len(r)
      /\ \A i \in 1 .. n : r[i + m] = q[i] /\ i + m \in 1 .. Len(r)
      /\ \A i \in 1 .. Len(r) : i \notin 1 .. m => i - m \in 1 .. n /\ r[i] = q[i - m]
  OBVIOUS
<1> HIDE DEF r, m, n
<1>2. NoneAbout(r, h) <=> NoneAbout(p, h) /\ NoneAbout(q, h)
  <2>1. ASSUME NoneAbout(r, h) PROVE NoneAbout(p, h) /\ NoneAbout(q, h)
    <3>1. \A i \in 1 .. m : p[i].of # h
      BY <1>1, <2>1 DEF NoneAbout
    <3>2. \A i \in 1 .. n : q[i].of # h
      BY <1>1, <2>1 DEF NoneAbout
    <3> QED
      BY <3>1, <3>2 DEF NoneAbout, m, n
  <2>2. ASSUME NoneAbout(p, h), NoneAbout(q, h) PROVE NoneAbout(r, h)
    <3>1. (\A i \in 1 .. m : p[i].of # h) /\ (\A i \in 1 .. n : q[i].of # h)
      BY <2>2 DEF NoneAbout, m, n
    <3> QED
      BY <1>1, <3>1 DEF NoneAbout
  <2> QED
    BY <2>1, <2>2
<1>3. ASSUME LastSets(q, h) PROVE LastSets(r, h)
  <2>1. PICK i \in 1 .. n : /\ q[i].of = h /\ q[i].type = "timeout"
                            /\ \A j \in 1 .. n : q[j].of = h => j <= i
    BY <1>3 DEF LastSets, n
  <2>2. i + m \in 1 .. Len(r) /\ r[i + m].of = h /\ r[i + m].type = "timeout"
    BY <1>1, <2>1
  <2>3. ASSUME NEW j \in 1 .. Len(r), r[j].of = h PROVE j <= i + m
    <3>1. CASE j \in 1 .. m
      BY <1>1, <2>1, <3>1
    <3>2. CASE j \notin 1 .. m
      <4>1. j - m \in 1 .. n /\ q[j - m].of = h
        BY <1>1, <2>3, <3>2
      <4>2. j - m <= i
        BY <2>1, <4>1
      <4> QED
        BY <1>1, <2>1, <4>2
    <3> QED
      BY <3>1, <3>2
  <2> QED
    BY <2>2, <2>3 DEF LastSets
<1>4. ASSUME NoneAbout(q, h), LastSets(p, h) PROVE LastSets(r, h)
  <2>1. PICK i \in 1 .. m : /\ p[i].of = h /\ p[i].type = "timeout"
                            /\ \A j \in 1 .. m : p[j].of = h => j <= i
    BY <1>4 DEF LastSets, m
  <2>2. i \in 1 .. Len(r) /\ r[i].of = h /\ r[i].type = "timeout"
    BY <1>1, <2>1
  <2>3. ASSUME NEW j \in 1 .. Len(r), r[j].of = h PROVE j <= i
    <3>1. j \in 1 .. m
      BY <1>1, <1>4, <2>3 DEF NoneAbout, n
    <3> QED
      BY <1>1, <2>1, <2>3, <3>1
  <2> QED
    BY <2>2, <2>3 DEF LastSets
<1>5. ASSUME LastSets(r, h), ~LastSets(q, h)
      PROVE  NoneAbout(q, h) /\ LastSets(p, h)
  <2>1. PICK i \in 1 .. Len(r) : /\ r[i].of = h /\ r[i].type = "timeout"
                                 /\ \A j \in 1 .. Len(r) : r[j].of = h => j <= i
    BY <1>5 DEF LastSets
  <2>2. i \in 1 .. m
    <3>1. ASSUME i \notin 1 .. m PROVE FALSE
      <4>1. i - m \in 1 .. n /\ q[i - m].of = h /\ q[i - m].type = "timeout"
        BY <1>1, <2>1, <3>1
      <4>2. ASSUME NEW j \in 1 .. n, q[j].of = h PROVE j <= i - m
        <5>1. j + m \in 1 .. Len(r) /\ r[j + m].of = h
          BY <1>1, <4>2
        <5>2. j + m <= i
          BY <2>1, <5>1
        <5> QED
          BY <1>1, <2>1, <4>2, <5>2
      <4> QED
        BY <1>5, <4>1, <4>2 DEF LastSets, n
    <3> QED
      BY <3>1
  <2>3. NoneAbout(q, h)
    <3>1. ASSUME NEW j \in 1 .. n, q[j].of = h PROVE FALSE
      <4>1. j + m \in 1 .. Len(r) /\ r[j + m].of = h
        BY <1>1, <3>1
      <4>2. j + m <= i
        BY <2>1, <4>1
      <4> QED
        BY <1>1, <2>2, <3>1, <4>2
    <3> QED
      BY <3>1 DEF NoneAbout, n
  <2>4. p[i].of = h /\ p[i].type = "timeout" /\ \A j \in 1 .. m : p[j].of = h => j <= i
    BY <1>1, <2>1, <2>2
  <2> QED
    BY <2>2, <2>3, <2>4 DEF LastSets, m
<1> QED
  BY <1>2, <1>3, <1>4, <1>5 DEF r

LEMMA AboutOne ==
  ASSUME NEW e, NEW h
  PROVE  /\ NoneAbout(<<e>>, h) <=> e.of # h
         /\ LastSets(<<e>>, h) <=> e.of = h /\ e.type = "timeout"
         /\ NoneAbout(<<>>, h) /\ ~LastSets(<<>>, h)
<1>1. Len(<<e>>) = 1 /\ <<e>>[1] = e /\ Len(<<>>) = 0 /\ 1 .. 1 = {1} /\ 1 .. 0 = {} /\ 1 <= 1
  OBVIOUS
<1> QED
  BY <1>1 DEF NoneAbout, LastSets

LEMMA AboutAppend ==
  ASSUME NEW S, NEW q \in Seq(S), NEW e \in S, NEW h
  PROVE  /\ NoneAbout(Append(q, e), h) <=> NoneAbout(q, h) /\ e.of # h
         /\ LastSets(Append(q, e), h) <=> IF e.of = h THEN e.type = "timeout" ELSE LastSets(q, h)
<1>1. Append(q, e) = q \o <<e>> /\ <<e>> \in Seq(S)
  OBVIOUS
<1> DEFINE o == <<e>>
<1>2. /\ NoneAbout(q \o o, h) <=> NoneAbout(q, h) /\ NoneAbout(o, h)
      /\ LastSets(q \o o, h) <=> LastSets(o, h) \/ (NoneAbout(o, h) /\ LastSets(q, h))
  <2> HIDE DEF o
  <2>1. o \in Seq(S)
    BY <1>1 DEF o
  <2> QED
    BY <2>1, AboutConcat
<1>3. /\ NoneAbout(o, h) <=> e.of # h
      /\ LastSets(o, h) <=> e.of = h /\ e.type = "timeout"
  BY AboutOne
<1>4. Append(q, e) = q \o o
  BY <1>1
<1> HIDE DEF o
<1> QED
  BY <1>2, <1>3, <1>4

LEMMA AboutTail ==
  ASSUME NEW S, NEW q \in Seq(S), q # <<>>, NEW h
  PROVE  /\ NoneAbout(q, h) <=> Head(q).of # h /\ NoneAbout(Tail(q), h)
         /\ LastSets(q, h) <=> \/ LastSets(Tail(q), h)
                               \/ /\ NoneAbout(Tail(q), h)
                                  /\ Head(q).of = h /\ Head(q).type = "timeout"
<1> DEFINE o == <<Head(q)>>
           t == Tail(q)
<1>1. q = o \o t /\ o \in Seq(S) /\ t \in Seq(S)
  OBVIOUS
<1>2. /\ NoneAbout(o, h) <=> Head(q).of # h
      /\ LastSets(o, h) <=> Head(q).of = h /\ Head(q).type = "timeout"
  BY AboutOne
<1> HIDE DEF o, t
<1>3. /\ NoneAbout(o \o t, h) <=> NoneAbout(o, h) /\ NoneAbout(t, h)
      /\ LastSets(o \o t, h) <=> LastSets(t, h) \/ (NoneAbout(t, h) /\ LastSets(o, h))
  BY <1>1, AboutConcat
<1> QED
  BY <1>1, <1>2, <1>3 DEF t

(* Armed, in terms of the messages posted and not yet posted.              *)
Set(t, m, list, h) ==
    LastSets(t, h) \/ (NoneAbout(t, h) /\ (LastSets(m, h) \/ (NoneAbout(m, h) /\ Listed(list, h))))

LEMMA ArmedSet ==
  ASSUME TypeInv
  PROVE  Armed(RxTimeout) <=> Set(todo, mbox, timers, RxTimeout)
<1> DEFINE a == mbox \o todo
           h == RxTimeout
<1>1. mbox \in Seq(Message) /\ todo \in Seq(Message) /\ timers \in List
  <2>1. Own \subseteq Message
    BY DEF Own, Message
  <2> QED
    BY <2>1 DEF TypeInv
<1>2. DOMAIN a = 1 .. Len(a) /\ DOMAIN timers = 1 .. Len(timers)
  BY <1>1, ListType
<1>3. Armed(h) <=> LastSets(a, h) \/ (NoneAbout(a, h) /\ Listed(timers, h))
  <2> HIDE DEF h
  <2>1. Armed(h) <=> \/ {i \in DOMAIN a : a[i].of = h} = {} /\ \E i \in DOMAIN timers : timers[i].h = h
                     \/ \E i \in {k \in DOMAIN a : a[k].of = h} :
                           a[i].type = "timeout" /\ \A j \in {k \in DOMAIN a : a[k].of = h} : j <= i
    BY DEF Armed
  <2> HIDE DEF a
  <2>2. {i \in DOMAIN a : a[i].of = h} = {} <=> NoneAbout(a, h)
    BY <1>2 DEF NoneAbout
  <2>3. (\E i \in {k \in DOMAIN a : a[k].of = h} :
            a[i].type = "timeout" /\ \A j \in {k \in DOMAIN a : a[k].of = h} : j <= i)
        <=> LastSets(a, h)
    BY <1>2, Zenon DEF LastSets
  <2> QED
    BY <1>2, <2>1, <2>2, <2>3 DEF Listed
<1>4. /\ NoneAbout(a, h) <=> NoneAbout(mbox, h) /\ NoneAbout(todo, h)
      /\ LastSets(a, h) <=> LastSets(todo, h) \/ (NoneAbout(todo, h) /\ LastSets(mbox, h))
  BY <1>1, AboutConcat
<1> HIDE DEF a
<1> QED
  BY <1>3, <1>4 DEF Set

LEMMA ArmedSetNext ==
  TypeInv' => (Armed(RxTimeout)' <=> Set(todo', mbox', timers', RxTimeout))
<1>1. TypeInv => (Armed(RxTimeout) <=> Set(todo, mbox, timers, RxTimeout))
  BY ArmedSet
<1>2. (TypeInv => (Armed(RxTimeout) <=> Set(todo, mbox, timers, RxTimeout)))'
  BY <1>1, PTL
<1> QED
  BY <1>2

LEMMA ListedWaited ==
  ASSUME TypeInv, NEW g, Listed(timers, g)
  PROVE  Listed(Waited, g)
<1> DEFINE w == TicksElapsed * TickMs
<1>1. w \in Nat /\ timers \in List /\ timers # <<>>
  BY ElapsedType DEF TypeInv, Listed
<1>2. Waited = [timers EXCEPT ![1].time = Monus(@, w)]
  BY <1>1 DEF Waited
<1> HIDE DEF w
<1>3. Len(Waited) = Len(timers) /\ \A i \in 1 .. Len(timers) : Waited[i].h = timers[i].h
  BY <1>1, <1>2, WaitedList
<1> QED
  BY <1>3 DEF Listed

LEMMA ListedTimeoutP ==
  ASSUME NEW list \in List, NEW h \in Handler, NEW g, g = h \/ Listed(list, g)
  PROVE  Listed(TimeoutP(list, h), g)
<1> DEFINE m == TimeoutP(list, h)
<1>1. PICK k \in 0 .. Len(list) :
         /\ Len(m) = Len(list) + 1 /\ m[k + 1].h = h
         /\ \A i \in 1 .. k : Kept(m, i, list, i)
         /\ \A i \in k + 1 .. Len(list) : Kept(m, i + 1, list, i)
  BY TimeoutPList
<1> HIDE DEF m
<1>2. Len(list) \in Nat
  BY ListType
<1>3. CASE g = h
  <2>1. k + 1 \in 1 .. Len(m)
    BY <1>1, <1>2
  <2> QED
    BY <1>1, <1>3, <2>1 DEF Listed, m
<1>4. CASE Listed(list, g)
  <2>1. PICK i \in 1 .. Len(list) : list[i].h = g
    BY <1>4 DEF Listed
  <2>2. /\ i \in 1 .. Len(m) /\ i + 1 \in 1 .. Len(m) /\ (i \in 1 .. k \/ i \in k + 1 .. Len(list))
    BY <1>1, <1>2
  <2>3. m[i].h = g \/ m[i + 1].h = g
    BY <1>1, <2>1, <2>2 DEF Kept
  <2> QED
    BY <2>2, <2>3 DEF Listed, m
<1> QED
  BY <1>3, <1>4

LEMMA ListedUntimeoutP ==
  ASSUME NEW list \in List, NEW h \in Handler, NEW g, g # h, Listed(list, g)
  PROVE  Listed(UntimeoutP(list, h), g)
<1>1. CASE Listed(list, h)
  <2> DEFINE m == UntimeoutP(list, h)
  <2>1. PICK k \in 1 .. Len(list) :
           /\ Len(m) = Len(list) - 1 /\ list[k].h = h
           /\ \A i \in 1 .. k - 1 : Kept(m, i, list, i)
           /\ \A i \in k + 1 .. Len(list) : Kept(m, i - 1, list, i)
    BY <1>1, UntimeoutPList DEF Listed
  <2> HIDE DEF m
  <2>2. Len(list) \in Nat
    BY ListType
  <2>3. PICK i \in 1 .. Len(list) : list[i].h = g
    BY DEF Listed
  <2>4. CASE i < k
    <3>1. i \in 1 .. k - 1 /\ i \in 1 .. Len(m)
      BY <2>1, <2>2, <2>4
    <3> QED
      BY <2>1, <2>3, <3>1 DEF Kept, Listed, m
  <2>5. CASE i > k
    <3>1. i \in k + 1 .. Len(list) /\ i - 1 \in 1 .. Len(m)
      BY <2>1, <2>2, <2>5
    <3> QED
      BY <2>1, <2>3, <3>1 DEF Kept, Listed, m
  <2> QED
    BY <2>1, <2>2, <2>3, <2>4, <2>5
<1>2. CASE ~Listed(list, h)
  <2>1. {i \in DOMAIN list : list[i].h = h} = {}
    BY <1>2, ListType DEF Listed
  <2> QED
    BY <2>1 DEF UntimeoutP
<1> QED
  BY <1>1, <1>2

LEMMA ListedExpire ==
  ASSUME TypeInv, Expire, NEW g, g # Head(timers).h, Listed(timers, g)
  PROVE  Listed(timers', g)
<1> DEFINE e == TickMs - 1
<1>1. /\ timers # <<>> /\ timers \in List /\ Head(timers) = timers[1] /\ e \in Nat
      /\ timers' = [i \in 1 .. Len(timers) - 1 |-> [timers[i + 1] EXCEPT !.due = Monus(@, e)]]
  <2>1. e \in Nat
    BY Numbers
  <2> QED
    BY <2>1 DEF Expire, Expired, TypeInv, List
<1> HIDE DEF e
<1>2. Len(timers') = Len(timers) - 1 /\ \A i \in 1 .. Len(timers) - 1 : timers'[i].h = timers[i + 1].h
  BY <1>1, ExpiredList
<1>3. PICK i \in 1 .. Len(timers) : timers[i].h = g
  BY DEF Listed
<1>4. i - 1 \in 1 .. Len(timers) - 1 /\ (i - 1) + 1 = i
  BY <1>1, <1>3, ListType
<1>5. timers'[i - 1].h = g
  BY <1>2, <1>3, <1>4
<1> QED
  BY <1>2, <1>4, <1>5 DEF Listed

LEMMA ListedTick ==
  ASSUME TypeInv, Tick, NEW g, Listed(timers, g)
  PROVE  Listed(timers', g)
<1>1. /\ timers \in List /\ TickMs \in Nat
      /\ timers' = [i \in DOMAIN timers |-> [timers[i] EXCEPT !.due = Monus(@, TickMs)]]
  BY Numbers DEF Tick, TypeInv
<1>2. Len(timers') = Len(timers) /\ \A i \in 1 .. Len(timers) : timers'[i].h = timers[i].h
  BY <1>1, TickList
<1> QED
  BY <1>2 DEF Listed

(* A step that concerns neither the bytes nor their timeout.               *)
Cared == Woken \/ RxTimeout \in missed \/ Armed(RxTimeout)

Elsewhere ==
    \/ UNCHANGED <<pc, taken>>
    \/ pc # "tail" /\ At' \in {"uart_rx", RxTimeout}
    \/ At \notin Busy /\ At' \notin Busy

LEMMA StrandFrame ==
  ASSUME TypeInv, TypeInv', StrandInv, UNCHANGED <<uartVars, todo>>, Elsewhere,
         UNCHANGED <<pc, taken>> \/ At' \notin {"uart_rx", RxTimeout} =>
            /\ Woken => Woken'
            /\ RxTimeout \in missed => RxTimeout \in missed' \/ Armed(RxTimeout)'
            /\ Armed(RxTimeout) => RxTimeout \in missed' \/ Armed(RxTimeout)'
  PROVE  StrandInv'
<1>1. UNCHANGED <<ring, ns, todo>> /\ (rxOn' <=> rxOn)
  BY DEF uartVars
<1>2. TodoInv'
  <2>1. pc = "tail" => pc' = "tail"
    BY DEF Elsewhere, At, Busy, Taking
  <2> QED
    BY <1>1, <2>1 DEF StrandInv, TodoInv
<1>3. CASE UNCHANGED <<pc, taken>>
  <2>1. At' = At /\ pc' = pc
    BY <1>3 DEF At
  <2> QED
    BY <1>1, <1>2, <1>3, <2>1 DEF StrandInv
<1>4. CASE At' \in {"uart_rx", RxTimeout}
  <2>1. At' \in Busy /\ pc' \notin {"tail", "net_send", "send", "sent", "flow"}
    BY <1>4 DEF At, Busy, Taking, RxTimeout
  <2> QED
    BY <1>2, <2>1 DEF StrandInv
<1>5. CASE At \notin Busy /\ At' \notin Busy
  <2>1. At' \notin {"uart_rx", RxTimeout} /\ pc' \notin {"tail", "net_send", "send", "sent", "flow"}
    BY <1>5 DEF At, Busy, Taking, RxTimeout
  <2> QED
    BY <1>1, <1>2, <1>5, <2>1 DEF StrandInv
<1> QED
  BY <1>3, <1>4, <1>5 DEF Elsewhere

(* The mailbox after a message that concerns neither.                      *)
LEMMA OtherMessage ==
  ASSUME TypeInv, NEW e \in Message, e # Static("uart_rx"), e.of # RxTimeout,
         \/ mbox' = mbox
         \/ mbox' = Append(mbox, e)
         \/ mbox # <<>> /\ e = Head(mbox) /\ mbox' = Tail(mbox)
  PROVE  /\ Copies("uart_rx")' = Copies("uart_rx")
         /\ LastSets(mbox', RxTimeout) <=> LastSets(mbox, RxTimeout)
         /\ NoneAbout(mbox', RxTimeout) <=> NoneAbout(mbox, RxTimeout)
<1> DEFINE s == Static("uart_rx")
           h == RxTimeout
<1>1. mbox \in Seq(Message) /\ e # s /\ e.of # h
  BY DEF TypeInv
<1> HIDE DEF s, h
<1>2. Count(mbox, s) \in Nat
  BY <1>1, CountType
<1>3. CASE mbox' = mbox
  BY <1>3 DEF Copies
<1>4. CASE mbox' = Append(mbox, e)
  <2>1. Count(mbox', s) = Count(mbox, s)
    BY <1>1, <1>2, <1>4, CountAppend
  <2>2. (LastSets(mbox', h) <=> LastSets(mbox, h)) /\ (NoneAbout(mbox', h) <=> NoneAbout(mbox, h))
    BY <1>1, <1>4, AboutAppend
  <2> QED
    BY <2>1, <2>2, CopiesCount DEF s, h
<1>5. CASE mbox # <<>> /\ e = Head(mbox) /\ mbox' = Tail(mbox)
  <2>1. Count(mbox', s) = Count(mbox, s)
    BY <1>1, <1>2, <1>5, CountTail
  <2>2. (LastSets(mbox', h) <=> LastSets(mbox, h)) /\ (NoneAbout(mbox', h) <=> NoneAbout(mbox, h))
    BY <1>1, <1>5, AboutTail
  <2> QED
    BY <2>1, <2>2, CopiesCount DEF s, h
<1> QED
  BY <1>3, <1>4, <1>5

LEMMA OtherStep ==
  ASSUME TypeInv, TypeInv', StrandInv, UNCHANGED <<uartVars, todo>>, Elsewhere,
         UNCHANGED <<pc, taken>> \/ At' \notin {"uart_rx", RxTimeout} =>
            /\ Listed(timers, RxTimeout) => Listed(timers', RxTimeout)
            /\ "uart_rx" \in missed => "uart_rx" \in missed'
            /\ RxTimeout \in missed => RxTimeout \in missed'
            /\ Copies("uart_rx")' = Copies("uart_rx")
            /\ LastSets(mbox', RxTimeout) <=> LastSets(mbox, RxTimeout)
            /\ NoneAbout(mbox', RxTimeout) <=> NoneAbout(mbox, RxTimeout)
  PROVE  StrandInv'
<1>1. /\ Armed(RxTimeout) <=> Set(todo, mbox, timers, RxTimeout)
      /\ Armed(RxTimeout)' <=> Set(todo', mbox', timers', RxTimeout)
  BY ArmedSet, ArmedSetNext
<1>2. UNCHANGED <<pc, taken>> \/ At' \notin {"uart_rx", RxTimeout} =>
         /\ Woken => Woken'
         /\ Armed(RxTimeout) => Armed(RxTimeout)'
  BY <1>1 DEF Woken, Set
<1> QED
  BY <1>2, StrandFrame

(* The messages the running function still has to post.                    *)
LEMMA PostOwnStrand ==
  ASSUME TypeInv, TypeInv', StrandInv, UNCHANGED uartVars, PostOwn
  PROVE  StrandInv'
<1> DEFINE h == RxTimeout
           e == Head(todo)
           n == Len(todo)
<1>1. /\ todo \in Seq(Own) /\ todo # <<>> /\ todo' = Tail(todo) /\ UNCHANGED <<pc, taken, timers>>
      /\ mbox \in Seq(Message)
  BY DEF PostOwn, TypeInv
<1>2. /\ e \in Own /\ e = todo[1] /\ n \in Nat /\ n >= 1 /\ Len(todo') = n - 1
      /\ \A i \in 1 .. n - 1 : todo'[i] = todo[i + 1] /\ i + 1 \in 1 .. n
  BY <1>1
<1>3. /\ e \in Message /\ e # Static("uart_rx") /\ e.of \in Handler
      /\ (e.type = "timeout" /\ e = Timeout(e.of)) \/ (e.type = "untimeout" /\ e = Untimeout(e.of))
  BY <1>2, OwnType, MessageType DEF Static
<1>4. /\ UNCHANGED <<ring, ns>> /\ (rxOn' <=> rxOn)
  BY DEF uartVars
<1>5. /\ NoneAbout(todo, h) <=> e.of # h /\ NoneAbout(todo', h)
      /\ LastSets(todo, h) <=> \/ LastSets(todo', h)
                               \/ NoneAbout(todo', h) /\ e.of = h /\ e.type = "timeout"
  BY <1>1, AboutTail
<1>6. TodoInv'
  <2>1. ASSUME NEW i \in 1 .. Len(todo')
        PROVE  /\ todo'[i] = Timeout(RxTimeout) => i = Len(todo')
               /\ todo'[i] = Untimeout(RxTimeout) =>
                     pc' = "tail" \/ (i < Len(todo') /\ todo'[Len(todo')] = Timeout(RxTimeout))
    <3>1. i \in 1 .. n - 1 /\ i + 1 \in 1 .. n /\ todo'[i] = todo[i + 1]
      BY <1>2
    <3>2. /\ todo[i + 1] = Timeout(RxTimeout) => i + 1 = n
          /\ todo[i + 1] = Untimeout(RxTimeout) =>
                pc = "tail" \/ (i + 1 < n /\ todo[n] = Timeout(RxTimeout))
      BY <3>1 DEF StrandInv, TodoInv
    <3>3. i + 1 < n => todo'[n - 1] = todo[n]
      <4>1. n - 1 \in Nat /\ (n > 1 => n - 1 \in 1 .. n - 1 /\ (n - 1) + 1 = n)
        BY <1>2
      <4> QED
        BY <1>2, <3>1, <4>1
    <3>4. Len(todo') = n - 1 /\ n \in Nat /\ i \in Nat /\ pc' = pc
      BY <1>1, <1>2, <3>1
    <3> HIDE DEF n
    <3>5. (i + 1 = n => i = Len(todo')) /\ (i + 1 < n => i < Len(todo'))
      BY <3>4
    <3> QED
      BY <3>1, <3>2, <3>3, <3>4, <3>5
  <2> QED
    BY <2>1 DEF TodoInv
<1>7. e = Timeout(h) => todo' = <<>>
  <2>1. e = Timeout(h) => n = 1
    BY <1>2 DEF StrandInv, TodoInv
  <2> QED
    BY <1>1, <1>2, <2>1
<1>8. e = Untimeout(h) /\ pc # "tail" => LastSets(todo', h)
  <2>1. SUFFICES ASSUME e = Untimeout(h), pc # "tail"
                 PROVE  LastSets(todo', h)
    OBVIOUS
  <2>2. 1 < n /\ todo[n] = Timeout(h)
    BY <1>2, <2>1 DEF StrandInv, TodoInv
  <2>3. n - 1 \in 1 .. Len(todo') /\ todo'[n - 1] = Timeout(h) /\ Len(todo') = n - 1
    <3>1. n - 1 \in 1 .. n - 1 /\ (n - 1) + 1 = n
      BY <1>2, <2>2
    <3> QED
      BY <1>2, <2>2, <3>1
  <2>4. Timeout(h).of = h /\ Timeout(h).type = "timeout"
    BY DEF Timeout
  <2>5. \A j \in 1 .. Len(todo') : j <= n - 1
    BY <1>2, <2>3
  <2> QED
    BY <2>3, <2>4, <2>5 DEF LastSets
<1>9. /\ mbox' = mbox \/ mbox' = Append(mbox, e)
      /\ mbox' = mbox => Unposted
      /\ mbox' # mbox => Posted
      /\ "uart_rx" \in missed => "uart_rx" \in missed'
  <2>1. mbox # Append(mbox, e)
    BY <1>1
  <2>2. e.of # "uart_rx"
    BY <1>3, Names DEF RxTimeout
  <2> QED
    BY <2>1, <2>2 DEF PostOwn, Posted, Unposted
<1>10. Copies("uart_rx")' = Copies("uart_rx")
  <2> DEFINE s == Static("uart_rx")
  <2>1. e # s
    BY <1>3
  <2> HIDE DEF s, e
  <2>2. Count(mbox, s) \in Nat
    BY <1>1, CountType
  <2>3. ASSUME mbox' = Append(mbox, e)
        PROVE  Count(mbox', s) = Count(mbox, s)
    <3>1. e \in Message
      BY <1>3
    <3>2. Count(Append(mbox, e), s) = Count(mbox, s) + (IF e = s THEN 1 ELSE 0)
      BY <1>1, <3>1, CountAppend
    <3> QED
      BY <2>1, <2>2, <2>3, <3>2
  <2> QED
    BY <1>9, <2>3, CopiesCount DEF s
<1>11. Woken => Woken'
  BY <1>9, <1>10 DEF Woken
<1>12. /\ Armed(h) <=> Set(todo, mbox, timers, h)
       /\ Armed(h)' <=> Set(todo', mbox', timers', h)
  BY ArmedSet, ArmedSetNext
<1>13. ASSUME pc # "tail", h \in missed \/ Armed(h)
       PROVE  h \in missed' \/ Armed(h)'
  <2>1. CASE e.of # h
    <3>1. LastSets(mbox', h) <=> LastSets(mbox, h)
      BY <1>3, <2>1, OtherMessage, <1>9
    <3>2. NoneAbout(mbox', h) <=> NoneAbout(mbox, h)
      BY <1>3, <2>1, OtherMessage, <1>9
    <3>3. h \in missed => h \in missed'
      BY <1>9, <2>1 DEF Posted, Unposted
    <3> QED
      BY <1>1, <1>5, <1>12, <1>13, <2>1, <3>1, <3>2, <3>3 DEF Set
  <2>2. CASE e.of = h /\ e.type = "timeout"
    <3>1. todo' = <<>>
      BY <1>3, <1>7, <2>2
    <3>2. CASE mbox' = mbox
      BY <1>9, <2>2, <3>2 DEF Unposted
    <3>3. CASE mbox' = Append(mbox, e)
      <4>1. LastSets(mbox', h)
        <5> HIDE DEF e
        <5> QED
          BY <1>1, <1>3, <2>2, <3>3, AboutAppend
      <4> QED
        BY <1>12, <3>1, <4>1, AboutOne DEF Set
    <3> QED
      BY <1>9, <3>2, <3>3
  <2>3. CASE e.of = h /\ e.type = "untimeout"
    BY <1>3, <1>8, <1>12, <1>13, <2>3 DEF Set
  <2> QED
    BY <1>3, <2>1, <2>2, <2>3
<1> QED
  <2>0. (At \notin Busy => pc # "tail") /\ At' = At
    BY <1>1 DEF At, Busy, Taking
  <2>1. (ring > 0 \/ ~rxOn) /\ At \notin Busy => Cared'
    BY <1>11, <1>13, <2>0 DEF StrandInv, Cared
  <2>2. pc = "flow" /\ ring > 0 => Cared'
    BY <1>11, <1>13 DEF StrandInv, Cared
  <2> QED
    BY <1>1, <1>4, <1>6, <1>11, <2>0, <2>1, <2>2 DEF StrandInv, Cared

LEMMA ReceiveStrand ==
  ASSUME TypeInv, TypeInv', StrandInv, UNCHANGED uartVars,
         ReceiveStatic \/ ReceiveCallback \/ ReceiveTimeout \/ ReceiveUntimeout
  PROVE  StrandInv'
<1> DEFINE h == RxTimeout
           e == Head(mbox)
<1>1. /\ mbox \in Seq(Message) /\ mbox # <<>> /\ mbox' = Tail(mbox) /\ UNCHANGED todo
      /\ pc = "wait" /\ At \notin Busy /\ e \in Message
  BY HeadType DEF ReceiveStatic, ReceiveCallback, ReceiveTimeout, ReceiveUntimeout, Receive, TypeInv,
                  At, Taking, Busy
<1>2. /\ At' = "loop" \/ At' \in StaticMsg \cup Callback
      /\ At' \notin Busy \/ At' = "uart_rx"
      /\ e = Static("uart_rx") => At' = "uart_rx"
      /\ e.of = h => At' = "loop"
      /\ pc' # pc
  <2>1. \/ e.type = "static" /\ pc' = "argu" /\ taken'.of = e.of /\ e.of \in StaticMsg
        \/ e.type = "callback" /\ pc' = e.of /\ e.of \in Callback
        \/ e.type \in {"timeout", "untimeout"} /\ pc' = "loop"
    BY <1>1, MessageType DEF ReceiveStatic, ReceiveCallback, ReceiveTimeout, ReceiveUntimeout, NotTaken
  <2>2. \/ e.type = "static" /\ pc' = "argu" /\ At' = e.of /\ e.of \in StaticMsg
        \/ e.type = "callback" /\ pc' = e.of /\ At' = e.of /\ e.of \in Callback
        \/ e.type \in {"timeout", "untimeout"} /\ pc' = "loop" /\ At' = "loop"
    BY <2>1, Names DEF At, Taking
  <2>3. e = Static("uart_rx") => At' = "uart_rx"
    BY <2>2 DEF Static
  <2> QED
    BY <1>1, <2>2, <2>3, Names DEF Busy, SentData, RxTimeout
<1>3. Waited \in List /\ (Listed(timers, h) => Listed(Waited, h))
  BY TypeParts, WaitedType, ListedWaited
<1>4. missed \subseteq missed'
  BY DEF ReceiveStatic, ReceiveCallback, ReceiveTimeout, ReceiveUntimeout
<1>5. CASE e = Static("uart_rx")
  <2>1. At' = "uart_rx" /\ Elsewhere
    BY <1>1, <1>2, <1>5 DEF Elsewhere
  <2>2. ~(UNCHANGED <<pc, taken>> \/ At' \notin {"uart_rx", RxTimeout})
    BY <1>2, <2>1
  <2> QED
    BY <1>1, <2>1, <2>2, OtherStep
<1>6. CASE e # Static("uart_rx") /\ e.of # h
  <2>1. Listed(timers, h) => Listed(timers', h)
    <3>1. CASE timers' = Waited
      BY <1>3, <3>1
    <3>2. CASE e.type = "timeout" /\ timers' = TimeoutP(Waited, e.of)
      BY <1>1, <1>3, <3>2, MessageType, ListedTimeoutP
    <3>3. CASE e.type = "untimeout" /\ timers' = UntimeoutP(Waited, e.of)
      BY <1>1, <1>3, <1>6, <3>3, MessageType, ListedUntimeoutP
    <3> QED
      BY <3>1, <3>2, <3>3 DEF ReceiveStatic, ReceiveCallback, ReceiveTimeout, ReceiveUntimeout
  <2>2. /\ Copies("uart_rx")' = Copies("uart_rx")
        /\ LastSets(mbox', RxTimeout) <=> LastSets(mbox, RxTimeout)
        /\ NoneAbout(mbox', RxTimeout) <=> NoneAbout(mbox, RxTimeout)
    BY <1>1, <1>6, OtherMessage
  <2>3. Elsewhere
    BY <1>1, <1>2 DEF Elsewhere
  <2> QED
    BY <1>1, <1>4, <2>1, <2>2, <2>3, OtherStep
<1>7. CASE e.of = h
  <2>1. e.type \in {"timeout", "untimeout"} /\ h \in Handler
    BY <1>1, <1>7, MessageType, Names
       DEF RxTimeout, SentData, ReceiveStatic, ReceiveCallback, ReceiveTimeout, ReceiveUntimeout
  <2>2. /\ ~NoneAbout(mbox, h)
        /\ LastSets(mbox, h) <=> LastSets(mbox', h) \/ (NoneAbout(mbox', h) /\ e.type = "timeout")
    BY <1>1, <1>7, AboutTail
  <2>3. /\ Armed(h) <=> Set(todo, mbox, timers, h)
        /\ Armed(h)' <=> Set(todo', mbox', timers', h)
    BY ArmedSet, ArmedSetNext
  <2>4. Copies("uart_rx")' = Copies("uart_rx")
    <3> DEFINE s == Static("uart_rx")
    <3>1. e # s
      BY <2>1 DEF Static
    <3> HIDE DEF s
    <3>2. Count(mbox, s) \in Nat
      BY <1>1, CountType
    <3>3. Count(Tail(mbox), s) = Count(mbox, s) - (IF Head(mbox) = s THEN 1 ELSE 0)
      BY <1>1, CountTail
    <3>4. Count(mbox', s) = Count(mbox, s)
      BY <1>1, <3>1, <3>2, <3>3
    <3> QED
      BY <3>4, CopiesCount DEF s
  <2>5. Armed(h) => h \in missed' \/ Armed(h)'
    <3>1. CASE e.type = "untimeout"
      BY <1>1, <2>2, <2>3, <3>1 DEF Set
    <3>2. CASE e.type = "timeout" /\ h \in missed'
      BY <3>2
    <3>3. CASE e.type = "timeout" /\ timers' = TimeoutP(Waited, h)
      <4>1. Listed(timers', h)
        BY <1>3, <2>1, <3>3, ListedTimeoutP
      <4> QED
        BY <1>1, <2>2, <2>3, <4>1 DEF Set
    <3> QED
      BY <1>7, <2>1, <3>1, <3>2, <3>3 DEF ReceiveStatic, ReceiveCallback, ReceiveTimeout, ReceiveUntimeout
  <2>6. Woken => Woken'
    BY <1>4, <2>4 DEF Woken
  <2>7. h \in missed => h \in missed'
    BY <1>4
  <2>8. Elsewhere
    BY <1>1, <1>2 DEF Elsewhere
  <2> QED
    BY <1>1, <2>5, <2>6, <2>7, <2>8, StrandFrame
<1> QED
  BY <1>5, <1>6, <1>7

LEMMA RestartSets ==
  /\ LastSets(Restart(RxTimeout), RxTimeout)
  /\ \A i \in 1 .. Len(Restart(RxTimeout)) :
        /\ Restart(RxTimeout)[i] = Timeout(RxTimeout) => i = Len(Restart(RxTimeout))
        /\ Restart(RxTimeout)[i] = Untimeout(RxTimeout) =>
              /\ i < Len(Restart(RxTimeout))
              /\ Restart(RxTimeout)[Len(Restart(RxTimeout))] = Timeout(RxTimeout)
<1> DEFINE r == <<Untimeout(RxTimeout), Timeout(RxTimeout)>>
<1>1. /\ Restart(RxTimeout) = r /\ Len(r) = 2 /\ 1 .. 2 = {1, 2}
      /\ r[1] = Untimeout(RxTimeout) /\ r[2] = Timeout(RxTimeout)
  BY DEF Restart
<1>2. /\ Timeout(RxTimeout).of = RxTimeout /\ Timeout(RxTimeout).type = "timeout"
      /\ Timeout(RxTimeout) # Untimeout(RxTimeout)
  BY DEF Timeout, Untimeout
<1> HIDE DEF r
<1>3. LastSets(r, RxTimeout)
  <2>1. 2 \in 1 .. Len(r) /\ r[2].of = RxTimeout /\ r[2].type = "timeout"
    BY <1>1, <1>2
  <2>2. \A j \in 1 .. Len(r) : j <= 2
    BY <1>1
  <2> QED
    BY <2>1, <2>2 DEF LastSets
<1>4. \A i \in 1 .. Len(r) : /\ r[i] = Timeout(RxTimeout) => i = Len(r)
                             /\ r[i] = Untimeout(RxTimeout) => i < Len(r) /\ r[Len(r)] = Timeout(RxTimeout)
  BY <1>1, <1>2
<1> QED
  BY <1>1, <1>3, <1>4

(* The receive interrupt always leaves a message to uart_rx, or records    *)
(* that it could not, unless the worker is about to run uart_rx.           *)
LEMMA RxWakes ==
  ASSUME TypeInv, CountInv, CallbackStatic("uart_rx", "uart1")
  PROVE  Woken' \/ Taken("uart_rx") = 1
<1> DEFINE s == Static("uart_rx")
<1>1. "uart_rx" \in StaticMsg /\ mbox \in Seq(Message) /\ s \in Message
  BY Names DEF TypeInv, Message, Static
<1> HIDE DEF s
<1>2. Count(mbox, s) \in Nat
  BY <1>1, CountType
<1>3. CASE cnt["uart_rx"] > 0
  <2>1. mbox' = mbox
    BY <1>3 DEF CallbackStatic, mboxVars
  <2>2. Copies("uart_rx")' > 0 \/ Taken("uart_rx") = 1
    <3>1. Owned("uart_rx") > 0 /\ Copies("uart_rx")' = Copies("uart_rx")
      BY <1>3, <2>1 DEF CountInv, Copies
    <3> QED
      BY <3>1, CountTypes DEF Owned
  <2> QED
    BY <2>2 DEF Woken
<1>4. CASE ~(cnt["uart_rx"] > 0) /\ Full
  BY <1>4 DEF CallbackStatic, Woken
<1>5. CASE ~(cnt["uart_rx"] > 0) /\ ~Full
  <2>1. mbox' = Append(mbox, s)
    BY <1>5 DEF CallbackStatic, s
  <2>2. Count(Append(mbox, s), s) = Count(mbox, s) + (IF s = s THEN 1 ELSE 0)
    BY <1>1, CountAppend
  <2>3. Count(mbox', s) > 0
    BY <1>2, <2>1, <2>2
  <2> QED
    BY <2>3, CopiesCount DEF Woken, s
<1> QED
  BY <1>3, <1>4, <1>5

(* What the functions the worker runs leave to be posted.                  *)
LEMMA RestartArms ==
  ASSUME TypeInv', todo' = Restart(RxTimeout)
  PROVE  TodoInv' /\ Armed(RxTimeout)'
<1>1. Armed(RxTimeout)'
  BY RestartSets, ArmedSetNext DEF Set
<1> QED
  BY <1>1, RestartSets DEF TodoInv

LEMMA FunctionStrand ==
  ASSUME TypeInv, TypeInv', RingInv, RingInv', CountInv, StrandInv, NEW f, AtFunction(f),
         \/ UartRx \/ UartRxTimeout \/ ReadTail \/ Copy \/ Send \/ SendRefused \/ Sent \/ FlowOn
         \/ FreeTxSentData \/ SockRecvTimeout \/ UartTx \/ SocketCreate
  PROVE  StrandInv'
<1>1. todo = <<>> /\ UNCHANGED <<mbox, cnt, missed, timers>>
  BY DEF AtFunction, mboxVars
<1>2. (Woken => Woken') /\ (RxTimeout \in missed <=> RxTimeout \in missed')
  BY <1>1 DEF Woken, Copies
<1>3. ASSUME NoneAbout(todo', RxTimeout), ~LastSets(todo', RxTimeout)
      PROVE  Armed(RxTimeout) => Armed(RxTimeout)'
  BY <1>1, <1>3, AboutOne, ArmedSet, ArmedSetNext DEF Set
<1>4. ASSUME todo' = <<>> PROVE TodoInv'
  <2>1. 1 .. Len(todo') = {}
    BY <1>4
  <2> QED
    BY <2>1 DEF TodoInv
<1>5. (ring > 0 \/ ~rxOn) /\ At \notin Busy => Cared
  BY DEF StrandInv, Cared
<1>14. /\ pc' \in Busy \cup {"loop", "writing"} => At' = pc'
       /\ pc \in {"free_tx_sent_data", "sock_recv_timeout", "uart_tx", "socket_create"} => At = pc
  BY DEF At, Busy, Taking
<1>6. CASE UartRx
  <2>1. CASE pc' = "loop" /\ todo' = Restart(RxTimeout)
    BY <2>1, RestartArms DEF StrandInv
  <2>2. CASE pc' = "tail" /\ todo' = <<Untimeout(RxTimeout)>> /\ ns'.count = ring'
    <3>1. TodoInv'
      <4>1. Len(todo') = 1 /\ todo'[1] = Untimeout(RxTimeout) /\ 1 .. 1 = {1}
        BY <2>2
      <4>2. Untimeout(RxTimeout) # Timeout(RxTimeout)
        BY DEF Timeout, Untimeout
      <4> QED
        BY <2>2, <4>1, <4>2 DEF TodoInv
    <3> QED
      BY <1>14, <2>2, <3>1 DEF StrandInv, Busy
  <2> QED
    BY <1>6, <2>1, <2>2 DEF UartRx, Idle, RxTimeout
<1>7. CASE UartRxTimeout
  <2>1. todo' = <<>> /\ TodoInv' /\ ring' = ring
    BY <1>1, <1>4, <1>7 DEF UartRxTimeout
  <2>2. CASE pc' = "tail" /\ ns'.count = ring'
    BY <1>14, <2>1, <2>2 DEF StrandInv, Busy
  <2>3. CASE pc' = "loop" /\ ring' = 0
    BY <2>1, <2>3 DEF StrandInv, RingInv
  <2> QED
    BY <1>7, <2>1, <2>2, <2>3 DEF UartRxTimeout, Idle
<1>15. CASE ReadTail
  <2>1. todo' = <<>> /\ TodoInv' /\ UNCHANGED <<ring, ns>> /\ pc = "tail" /\ pc' = "net_send"
    BY <1>1, <1>4, <1>15 DEF ReadTail, AtFunction, uartVars
  <2> QED
    BY <1>2, <1>14, <2>1 DEF StrandInv, Busy
<1>8. CASE Copy
  <2>1. todo' = <<>> /\ TodoInv' /\ ring' = ring /\ pc = "net_send" /\ pc' = "send"
    BY <1>1, <1>4, <1>8 DEF Copy, AtFunction
  <2>2. ns'.buflen = Min2(ns.count, SendSize) /\ ns'.count = Monus(ns.count, SendSize)
    BY <1>8, NsTypes DEF Copy
  <2>3. ns'.count + ns'.buflen = ns.count
    BY <2>2, NsTypes, Numbers DEF Min2, Monus
  <2> QED
    BY <1>2, <1>14, <2>1, <2>3 DEF StrandInv, Busy
<1>9. CASE Send
  <2>1. todo' = <<>> /\ TodoInv' /\ UNCHANGED <<ring, ns>> /\ pc = "send" /\ pc' = "sent"
    BY <1>1, <1>4, <1>9 DEF Send, AtFunction
  <2> QED
    BY <1>2, <1>14, <2>1 DEF StrandInv, Busy
<1>10. CASE SendRefused
  <2>1. todo' = Restart(RxTimeout) /\ pc' = "loop"
    BY <1>10 DEF SendRefused, RxTimeout
  <2> QED
    BY <2>1, RestartArms DEF StrandInv
<1>11. CASE Sent
  <2>1. ring' = (ring - ns.buflen) % BufSize /\ pc = "sent"
    BY <1>11 DEF Sent, AtFunction
  <2>2. ~Woken => ring' = ns.count
    <3>1. ~Woken => ring = ns.count + ns.buflen
      BY <2>1 DEF StrandInv
    <3>2. ~Woken => ring - ns.buflen = ns.count /\ ns.count \in 0 .. BufSize - 1
      BY <3>1, NsTypes, Numbers
    <3>3. ns.count \in 0 .. BufSize - 1 => ns.count % BufSize = ns.count
      BY NsTypes, Numbers, Remainder
    <3> QED
      BY <2>1, <3>2, <3>3
  <2>3. CASE pc' = "net_send" /\ todo' = <<>> /\ ns' = [ns EXCEPT !.from = 0]
    <3>1. ns'.count = ns.count
      BY <2>3, NsTypes
    <3> QED
      BY <1>2, <1>4, <1>14, <2>2, <2>3, <3>1 DEF StrandInv, Busy
  <2>4. CASE pc' = "flow" /\ todo' = Restart(RxTimeout)
    BY <1>14, <2>4, RestartArms DEF StrandInv, Busy
  <2>5. CASE pc' = "flow" /\ todo' = <<>> /\ ~(ns.count > 0)
    <3>1. ns.count = 0
      BY <2>5, NsTypes
    <3> QED
      BY <1>2, <1>4, <1>14, <2>2, <2>5, <3>1 DEF StrandInv, Busy
  <2> QED
    BY <1>11, <2>3, <2>4, <2>5 DEF Sent, RxTimeout
<1>12. CASE FlowOn
  <2>1. ring' = ring /\ pc = "flow" /\ pc' = "loop" /\ (todo' = <<>> \/ todo' = Restart(RxTimeout))
    BY <1>12 DEF FlowOn, AtFunction, RxTimeout
  <2>2. CASE todo' = Restart(RxTimeout)
    BY <2>1, <2>2, RestartArms DEF StrandInv
  <2>3. CASE todo' = <<>>
    <3>1. (ring' > 0 \/ ~rxOn') => ring > 0
      BY <2>1 DEF RingInv
    <3>2. ring > 0 => Cared
      BY <2>1 DEF StrandInv, Cared
    <3>3. Cared => Cared'
      <4>1. Armed(RxTimeout) => Armed(RxTimeout)'
        BY <1>3, <2>3, AboutOne
      <4> QED
        BY <1>2, <4>1 DEF Cared
    <3> QED
      BY <1>4, <2>1, <2>3, <3>1, <3>2, <3>3 DEF StrandInv, Cared
  <2> QED
    BY <2>1, <2>2, <2>3
<1>13. CASE FreeTxSentData \/ SockRecvTimeout \/ UartTx \/ SocketCreate
  <2>1. /\ UNCHANGED <<ring, ns>> /\ (rxOn' <=> rxOn)
        /\ pc \in {"free_tx_sent_data", "sock_recv_timeout", "uart_tx", "socket_create"}
        /\ pc' \in {"loop", "writing"}
        /\ todo' \in {<<>>, Restart("sock_recv_timeout"), <<Timeout("sock_recv_timeout")>>}
    <3>1. CASE FreeTxSentData
      BY <3>1 DEF FreeTxSentData, AtFunction, uartVars, SentData
    <3>2. CASE SockRecvTimeout
      BY <3>2 DEF SockRecvTimeout, AtFunction, uartVars
    <3>3. CASE UartTx
      BY <3>3 DEF UartTx, AtFunction, uartVars
    <3>4. CASE SocketCreate
      BY <3>4 DEF SocketCreate, AtFunction, uartVars
    <3> QED
      BY <1>13, <3>1, <3>2, <3>3, <3>4
  <2>2. \A i \in 1 .. Len(todo') : todo'[i].of # RxTimeout
    <3>1. Untimeout("sock_recv_timeout").of # RxTimeout /\ Timeout("sock_recv_timeout").of # RxTimeout
      BY DEF Timeout, Untimeout, RxTimeout
    <3>2. CASE todo' = <<>>
      BY <3>2
    <3>3. CASE todo' = Restart("sock_recv_timeout")
      BY <3>1, <3>3 DEF Restart
    <3>4. CASE todo' = <<Timeout("sock_recv_timeout")>>
      BY <3>1, <3>4
    <3> QED
      BY <2>1, <3>2, <3>3, <3>4
  <2>3. NoneAbout(todo', RxTimeout) /\ ~LastSets(todo', RxTimeout)
    BY <2>2 DEF NoneAbout, LastSets
  <2>4. TodoInv'
    BY <2>2 DEF TodoInv, Timeout, Untimeout
  <2>5. Cared => Cared'
    BY <1>2, <1>3, <2>3 DEF Cared
  <2> QED
    BY <1>5, <1>14, <2>1, <2>4, <2>5 DEF StrandInv, Cared, Busy
<1> QED
  BY <1>6, <1>7, <1>8, <1>9, <1>10, <1>11, <1>12, <1>13, <1>15

LEMMA StrandStep ==
  ASSUME TypeInv, TypeInv', RingInv, RingInv', CountInv, StrandInv, [Next]_vars
  PROVE  StrandInv'
<1>0. ASSUME UNCHANGED <<uartVars, todo, mbox, missed>>,
             Listed(timers, RxTimeout) => Listed(timers', RxTimeout), Elsewhere
      PROVE  StrandInv'
  <2>1. Copies("uart_rx")' = Copies("uart_rx")
    BY <1>0 DEF Copies
  <2> QED
    BY <1>0, <2>1, OtherStep
<1>1. CASE UNCHANGED vars
  BY <1>0, <1>1 DEF vars, taskVars, mboxVars, Elsewhere
<1>2. CASE Loop
  <2>1. UNCHANGED uartVars
    BY <1>2 DEF Loop
  <2>2. CASE PostOwn
    BY <2>1, <2>2, PostOwnStrand
  <2>3. CASE Fetch
    BY <1>0, <2>1, <2>3 DEF Fetch, mboxVars, Elsewhere, At, Taking, Busy
  <2>4. CASE Expire
    <3>1. Head(timers) \in Entry
      BY <2>4, HeadType DEF Expire, Expired, TypeInv, List
    <3>2. /\ UNCHANGED <<mbox, missed, todo>> /\ pc' = Head(timers).h /\ pc' \in Handler
          /\ pc \in {"loop", "wait"}
      BY <2>4, <3>1 DEF Expire, Expired, Entry, mboxVars
    <3>3. At' = pc' /\ At \notin Busy /\ (pc' = RxTimeout \/ pc' \notin Busy) /\ pc' # pc
      BY <3>2, Names DEF At, Taking, Busy, RxTimeout
    <3>6. Elsewhere
      BY <3>2, <3>3 DEF Elsewhere
    <3>4. pc' # RxTimeout => (Listed(timers, RxTimeout) => Listed(timers', RxTimeout))
      BY <2>4, <3>2, ListedExpire
    <3>5. CASE pc' = RxTimeout
      <4>1. ~(UNCHANGED <<pc, taken>> \/ At' \notin {"uart_rx", RxTimeout})
        BY <3>3, <3>5
      <4> QED
        BY <2>1, <3>2, <3>6, <4>1, OtherStep
    <3> QED
      BY <1>0, <2>1, <3>2, <3>4, <3>5, <3>6
  <2>5. CASE ReceiveStatic \/ ReceiveCallback \/ ReceiveTimeout \/ ReceiveUntimeout
    BY <2>1, <2>5, ReceiveStrand
  <2>6. CASE ReadCtx \/ LoadCnt \/ StoreCnt
    <3>1. /\ UNCHANGED <<todo, mbox, missed, timers>> /\ pc \in Taking /\ taken'.of = taken.of
          /\ taken.of \in StaticMsg /\ (pc' \in Taking \/ pc' = taken.of)
      BY <2>6, CountTypes DEF ReadCtx, LoadCnt, StoreCnt, OfTaken, CountInv, Taking, TakenState
    <3>2. At' = At /\ At \in {"uart_rx", SentData} /\ pc # "tail"
      BY <3>1, Names DEF At, Taking
    <3>3. Elsewhere
      BY <3>2 DEF Elsewhere, Busy, SentData
    <3> QED
      BY <1>0, <2>1, <3>1, <3>3
  <2> QED
    BY <1>2, <2>2, <2>3, <2>4, <2>5, <2>6 DEF Loop, WorkerLoop
<1>3. CASE Time
  <2>1. /\ UNCHANGED <<uartVars, todo, mbox, missed, pc, taken>> /\ Tick
    BY <1>3 DEF Time, Tick, mboxVars
  <2>2. Listed(timers, RxTimeout) => Listed(timers', RxTimeout)
    BY <2>1, ListedTick
  <2> QED
    BY <1>0, <2>1, <2>2 DEF Elsewhere
<1>4. CASE \/ UartRx \/ UartRxTimeout \/ ReadTail \/ Copy \/ Send \/ SendRefused \/ Sent \/ FlowOn
           \/ FreeTxSentData \/ SockRecvTimeout \/ UartTx \/ SocketCreate
  <2>1. \E f : AtFunction(f)
    BY <1>4 DEF UartRx, UartRxTimeout, ReadTail, Copy, Send, SendRefused, Sent, FlowOn,
                FreeTxSentData, SockRecvTimeout, UartTx, SocketCreate
  <2> QED
    BY <1>4, <2>1, FunctionStrand
<1>5. ASSUME NEW e \in Message, e # Static("uart_rx"), e.of # RxTimeout,
             mbox' = mbox \/ mbox' = Append(mbox, e),
             missed' = missed \/ missed' = missed \cup {SentData} \/ missed' = missed \ {SentData},
             UNCHANGED <<uartVars, todo, timers>>, Elsewhere
      PROVE  StrandInv'
  <2>1. /\ Copies("uart_rx")' = Copies("uart_rx")
        /\ LastSets(mbox', RxTimeout) <=> LastSets(mbox, RxTimeout)
        /\ NoneAbout(mbox', RxTimeout) <=> NoneAbout(mbox, RxTimeout)
    BY <1>5, OtherMessage
  <2>2. /\ "uart_rx" \in missed => "uart_rx" \in missed'
        /\ RxTimeout \in missed => RxTimeout \in missed'
    BY <1>5 DEF SentData, RxTimeout
  <2> QED
    BY <1>5, <2>1, <2>2, OtherStep
<1>6. /\ Static(SentData) \in Message /\ Static(SentData) # Static("uart_rx")
      /\ Static(SentData).of # RxTimeout
  BY Names DEF Static, Message, SentData, RxTimeout
<1>7. ASSUME NEW p \in Port, TxInterrupt(p)
      PROVE  StrandInv'
  <2>1. CallbackStatic(SentData, p) /\ UNCHANGED <<uartVars, todo, timers, pc, taken>>
    BY <1>7 DEF TxInterrupt
  <2>2. /\ mbox' = mbox \/ mbox' = Append(mbox, Static(SentData))
        /\ missed' = missed \/ missed' = missed \cup {SentData} \/ missed' = missed \ {SentData}
    BY <2>1 DEF CallbackStatic, mboxVars
  <2> QED
    BY <1>5, <1>6, <2>1, <2>2 DEF Elsewhere
<1>8. ASSUME NEW w \in Writer, WriterSteps(w)
      PROVE  StrandInv'
  <2>1. UNCHANGED <<uartVars, todo, timers, taken>>
    BY <1>8 DEF WriterSteps, WriterCheck, WriterCtx, WriterPost, WriterLoad, WriterStore, WriterStep
  <2>2. pc' = pc \/ (w = "worker" /\ writer[w].pc # "idle" /\ pc' = "loop")
    BY <1>8 DEF WriterSteps, WriterCheck, WriterCtx, WriterPost, WriterLoad, WriterStore, WriterStep
  <2>3. Elsewhere
    BY <2>1, <2>2 DEF CountInv, Elsewhere, At, Taking, Busy
  <2>4. /\ mbox' = mbox \/ mbox' = Append(mbox, Static(SentData))
        /\ missed' = missed \/ missed' = missed \cup {SentData} \/ missed' = missed \ {SentData}
    BY <1>8 DEF WriterSteps, WriterCheck, WriterCtx, WriterPost, WriterLoad, WriterStore
  <2> QED
    BY <1>5, <1>6, <2>1, <2>3, <2>4
<1>9. ASSUME NEW n \in 0 .. RxMax, RxInterrupt(n)
      PROVE  StrandInv'
  <2>1. CallbackStatic("uart_rx", "uart1") /\ UNCHANGED <<todo, pc, taken>>
    BY <1>9 DEF RxInterrupt
  <2>2. (Woken' \/ Taken("uart_rx") = 1) /\ TodoInv'
    BY <2>1, RxWakes DEF StrandInv, TodoInv
  <2>3. CASE Woken'
    BY <2>2, <2>3 DEF StrandInv
  <2>4. CASE Taken("uart_rx") = 1
    <3>1. At' = "uart_rx" /\ At' \in Busy /\ pc' \notin {"tail", "net_send", "send", "sent", "flow"}
      BY <2>1, <2>4 DEF Taken, At, Taking, Busy
    <3> QED
      BY <2>2, <3>1 DEF StrandInv
  <2> QED
    BY <2>2, <2>3, <2>4
<1>11. ASSUME NEW p \in Port, TxCharsStart(p)
       PROVE  StrandInv'
  BY <1>0, <1>11 DEF TxCharsStart, taskVars, mboxVars, Elsewhere
<1>10. ASSUME NEW f \in Callback, OtherTask(f)
       PROVE  StrandInv'
  <2> DEFINE e == [type |-> "callback", of |-> f]
  <2>1. /\ UNCHANGED <<uartVars, todo, timers, pc, taken, missed>>
        /\ mbox' = mbox \/ mbox' = Append(mbox, e)
    BY <1>10 DEF OtherTask, PostCallback, CallbackFails, CallbackNoMem, mboxVars
  <2>2. e \in Message /\ e # Static("uart_rx") /\ e.of # RxTimeout
    BY Names DEF Message, Static, RxTimeout
  <2> HIDE DEF e
  <2> QED
    BY <1>5, <2>1, <2>2 DEF Elsewhere
<1> QED
  BY <1>1, <1>2, <1>3, <1>4, <1>7, <1>8, <1>9, <1>10, <1>11 DEF Next, Worker, Functions, Writer

-----------------------------------------------------------------------------
(* The theorems                                                            *)

LEMMA InitInv == Init => IInv
<1> SUFFICES ASSUME Init
             PROVE  IInv
  OBVIOUS
<1>0. /\ setup \in Setup /\ mbox = <<>> /\ cnt = [m \in StaticMsg |-> 0] /\ timers = <<>>
      /\ pc = "loop" /\ todo = <<>> /\ wait = NoWait /\ missed = {} /\ faults = 0
      /\ ctx = [m \in StaticMsg |-> Null] /\ taken = NotTaken
      /\ flow \in setup.flow /\ rxOn = TRUE /\ ring = 0 /\ ns = Idle /\ owed = 0 /\ overrun = FALSE
      /\ toFree = {} /\ writer = [w \in Writer |-> NoWriter] /\ raced = {} /\ astray = {}
      /\ callbacks = 0
  BY DEF Init, TaskInit
<1>1. MailType
  <2>1. mbox \in Seq(Message) /\ Len(mbox) = 0
    BY <1>0
  <2> QED
    BY <1>0, <2>1, Bounds DEF MailType
<1>2. TimeType
  <2>1. timers \in List
    BY <1>0 DEF List
  <2>2. 0 \in 0 .. TickMod - 1
    BY Numbers
  <2> QED
    BY <1>0, <2>1, <2>2 DEF TimeType, NoWait
<1>3. ControlType
  <2>1. todo \in Seq(Own)
    BY <1>0
  <2> QED
    BY <1>0, <2>1 DEF ControlType
<1>4. UartType
  <2>1. 0 \in 0 .. BufSize - 1 /\ 0 \in 0 .. SendSize
    BY Numbers
  <2> QED
    BY <1>0, <2>1, HostUartAssumption DEF UartType, Idle
<1>5. TxType
  <2>1. 0 \in 0 .. CntMod - 1
    BY Numbers
  <2>2. cnt \in [StaticMsg -> 0 .. CntMod - 1] /\ ctx \in [StaticMsg -> Ctx \cup {Null}]
    BY <1>0, <2>1
  <2>3. taken \in TakenState /\ writer \in [Writer -> WriterState]
    BY <1>0, <2>1 DEF TakenState, WriterState, NotTaken, NoWriter
  <2> QED
    BY <1>0, <2>2, <2>3 DEF TxType
<1>6. TypeInv
  BY <1>1, <1>2, <1>3, <1>4, <1>5, TypeParts
<1>7. BytesInv /\ RingInv
  BY <1>0 DEF BytesInv, RingInv, Idle
<1>8. CountInv
  <2>1. Owned("uart_rx") = 0 /\ Owned(SentData) = 0
    <3>1. {i \in DOMAIN mbox : mbox[i] = Static("uart_rx")} = {}
          /\ {i \in DOMAIN mbox : mbox[i] = Static(SentData)} = {}
      BY <1>0
    <3>2. Taken("uart_rx") = 0 /\ Taken(SentData) = 0
      BY <1>0 DEF Taken, Taking
    <3> QED
      BY <3>1, <3>2, FS_EmptySet DEF Copies, Owned
  <2>2. \A w \in Writer : writer[w].pc = "idle"
    BY <1>0 DEF NoWriter
  <2>3. Posting("task") = 0 /\ Posting("worker") = 0 /\ writer["worker"].pc = "idle"
    BY <2>2 DEF Posting, Writer
  <2>4. cnt["uart_rx"] = 0 /\ cnt[SentData] = 0
    BY <1>0, Names
  <2>5. 0 % CntMod = 0
    BY Numbers, Remainder
  <2>6. (Owned(SentData) - (Posting("task") + Posting("worker"))) % CntMod = 0
    BY <2>1, <2>3, <2>5
  <2> QED
    BY <1>0, <2>1, <2>3, <2>4, <2>6 DEF CountInv, Taking
<1>9. TimerInv
  <2>1. Len(timers) = 0 /\ 1 .. 0 = {}
    BY <1>0
  <2> QED
    BY <1>0, <2>1 DEF TimerInv, NoWait
<1>10. StrandInv
  <2>1. Len(todo) = 0 /\ 1 .. 0 = {}
    BY <1>0
  <2> QED
    BY <1>0, <2>1 DEF StrandInv, TodoInv
<1> QED
  BY <1>6, <1>7, <1>8, <1>9, <1>10 DEF IInv

LEMMA NextInv == IInv /\ [Next]_vars => IInv'
<1> SUFFICES ASSUME IInv, [Next]_vars
             PROVE  IInv'
  OBVIOUS
<1>1. TypeInv /\ BytesInv /\ RingInv /\ CountInv /\ TimerInv /\ StrandInv
  BY DEF IInv
<1>2. TypeInv' /\ BytesInv' /\ RingInv' /\ CountInv' /\ TimerInv'
  BY <1>1, TypeStep, BytesStep, RingStep, CountStep, TimerStep
<1>3. StrandInv'
  BY <1>1, <1>2, StrandStep
<1> QED
  BY <1>2, <1>3 DEF IInv

(* Every step of the worker, the interrupts, the clock and the other tasks *)
(* keeps the inductive invariant.                                          *)
LEMMA Invariance == Spec => []IInv
  BY InitInv, NextInv, PTL DEF Spec

(* For any sizes, limits, mailbox and delays, the state of the worker task *)
(* and of the host UART stays within its types: the mailbox within its     *)
(* size, the counters within a byte, the ring buffer and every index of    *)
(* uart_net_send within TLS_UART_RX_BUF_SIZE.                              *)
THEOREM TypeCorrect == Spec => []TypeOK
<1>1. IInv => TypeOK
  <2> SUFFICES ASSUME TypeInv
               PROVE  TypeOK
    BY DEF IInv
  <2>1. todo \in Seq(Message)
    <3>1. Own \subseteq Message
      BY DEF Own, Message
    <3> QED
      BY <3>1 DEF TypeInv
  <2>2. timers \in Seq([h : Handler, time : Nat, due : Nat])
    BY DEF TypeInv, List, Entry
  <2>3. wait \in [start : 0 .. TickMod - 1, now : 0 .. TickMod - 1, left : Int]
    <3>1. Nat \cup {Forever} \subseteq Int
      BY DEF Forever
    <3> QED
      BY <3>1 DEF TypeInv
  <2>4. ns \in [count : 0 .. BufSize, buflen : 0 .. SendSize, from : 0 .. BufSize - 1]
    <3>1. 0 .. BufSize - 1 \subseteq 0 .. BufSize
      BY Numbers
    <3> QED
      BY <3>1 DEF TypeInv
  <2>5. TaskTypeOK
    BY <2>1, <2>2, <2>3 DEF TypeInv, TaskTypeOK, TakenState
  <2> QED
    BY <2>4, <2>5 DEF TypeInv, TypeOK, WriterState
<1> QED
  BY <1>1, Invariance, PTL

(* uart_net_send passes on every byte once and in the order of arrival,    *)
(* whatever the receive interrupt adds between its steps, until the        *)
(* interrupt has to throw bytes away.                                      *)
THEOREM BytesPassOnce == Spec => []EachByteOnce
<1>1. IInv => EachByteOnce
  <2> SUFFICES ASSUME TypeInv, BytesInv, ~overrun
               PROVE  /\ owed = ring - (IF pc = "sent" THEN ns.buflen ELSE 0)
                      /\ pc = "send" => ns.from = 0 /\ ns.buflen \in 1 .. owed
    BY DEF IInv, EachByteOnce
  <2>1. owed = ring - (IF pc = "sent" THEN ns.buflen ELSE 0)
    BY DEF BytesInv
  <2>2. ASSUME pc = "send" PROVE ns.from = 0 /\ ns.buflen \in 1 .. owed
    <3>1. ns.from = 0 /\ ns.buflen >= 1 /\ ns.buflen + ns.count <= ring
      BY <2>2 DEF BytesInv
    <3>2. owed = ring
      BY <2>1, <2>2, NsTypes
    <3> QED
      BY <3>1, <3>2, NsTypes
  <2> QED
    BY <2>1, <2>2
<1> QED
  BY <1>1, Invariance, PTL

(* cbs.cnt of a static message is the number of its copies in the mailbox *)
(* and of the one the worker has taken and not counted down, less those    *)
(* that tls_uart_tx_chars_start has posted and not yet counted, modulo     *)
(* 256, as long as no update of it is lost between a load and a store; and *)
(* none is ever lost of the receiver's, which only the interrupt counts up *)
(* and only while it is zero.                                              *)
THEOREM CountMatchesMailbox == Spec => []CountExact
<1>1. IInv => CountExact
  <2> SUFFICES ASSUME IInv, NEW m \in StaticMsg, m \notin raced
               PROVE  cnt[m] = (Copies(m) + Taken(m) - Uncounted(m)) % CntMod
    BY DEF CountExact, IInv, CountInv
  <2>0. TypeInv /\ CountInv
    BY DEF IInv
  <2>1. CASE m = "uart_rx"
    <3>1. Uncounted(m) = 0
      BY <2>1 DEF Uncounted, SentData
    <3> DEFINE x == cnt[m]
    <3>2. x = Copies(m) + Taken(m) /\ x \in 0 .. CntMod - 1 /\ x \in Int
      BY <2>0, <2>1, CountTypes DEF CountInv, Owned
    <3> HIDE DEF x
    <3>3. x = x % CntMod
      BY <3>2, Numbers, Remainder
    <3>4. Copies(m) + Taken(m) - Uncounted(m) = x
      BY <2>0, <3>1, <3>2, CountTypes
    <3> QED
      BY <3>3, <3>4 DEF x
  <2>2. CASE m = SentData
    <3>1. cnt[SentData] = (Owned(SentData) - (Posting("task") + Posting("worker"))) % CntMod
      BY <2>0, <2>2 DEF CountInv
    <3>2. Uncounted(m) = Posting("task") + Posting("worker")
      BY <2>2, CountingSize DEF Uncounted
    <3> DEFINE y == Copies(m) + Taken(m) - Uncounted(m)
    <3>3. Owned(SentData) - (Posting("task") + Posting("worker")) = y
      <4>1. Owned(SentData) = Copies(m) + Taken(m)
        BY <2>2 DEF Owned
      <4> QED
        BY <2>0, <3>2, <4>1, CountTypes DEF Writer
    <3>4. cnt[m] = y % CntMod
      <4> HIDE DEF y
      <4> QED
        BY <2>2, <3>1, <3>3
    <3> QED
      BY <3>4
  <2> QED
    BY <2>1, <2>2, Names
<1> QED
  BY <1>1, Invariance, PTL

(* Bytes in the ring buffer, and a receiver that flow control has stopped, *)
(* are never forgotten: unless a wake-up could not be posted, a message to *)
(* uart_rx, the receive timeout or the worker itself will see to them.     *)
THEOREM BytesNotStranded == Spec => []NothingStranded
<1>1. IInv => NothingStranded
  <2> SUFFICES ASSUME IInv, ring > 0 \/ ~rxOn, missed \intersect {"uart_rx", RxTimeout} = {},
                      pc \notin Busy, ~(Copies("uart_rx") > 0), ~Armed(RxTimeout)
               PROVE  Taken("uart_rx") > 0
    BY DEF NothingStranded, Busy, RxTimeout
  <2>1. At \in Busy
    BY DEF IInv, StrandInv, Woken
  <2>2. pc \in Taking /\ taken.of \in Busy /\ taken.of \in StaticMsg
    BY <2>1 DEF At, IInv, CountInv
  <2>3. taken.of = "uart_rx"
    BY <2>2, Names DEF Busy, SentData
  <2> QED
    BY <2>2, <2>3 DEF Taken
<1> QED
  BY <1>1, Invariance, PTL

(* No handler of the timeout list is called before its time but for the    *)
(* rounding to ticks, whatever the order of tls_timeout_p, tls_untimeout_p *)
(* and interrupted waits, and wherever the tick counter wraps.             *)
THEOREM NeverEarly == Spec => NotEarly
<1>1. IInv /\ [Next]_vars => [Expire => Head(timers).due < TickMs]_vars
  <2>1. ASSUME IInv, Expire
        PROVE  Head(timers).due < TickMs
    <3>1. timers[1].due < TickMs
      BY <2>1, ExpirePunctual DEF IInv
    <3>2. Head(timers) = timers[1]
      BY <2>1, HeadType DEF IInv, TypeInv, List, Expire, Expired
    <3> QED
      BY <3>1, <3>2
  <2> QED
    BY <2>1
<1> QED
  BY <1>1, Invariance, PTL DEF Spec, NotEarly

-----------------------------------------------------------------------------
(* The messages the worker posts to itself                                 *)

RxWake == Static("uart_rx")
Stop == Untimeout(RxTimeout)
Start == Timeout(RxTimeout)
NoWake(q) == \A i \in 1 .. Len(q) : q[i] # RxWake

(* The timeout is not in the list once the first n messages of the mailbox *)
(* are received; and so it is when one to set it comes.                    *)
Cleared(q, list, n) ==
    \/ \E i \in 1 .. n : q[i] = Stop /\ \A k \in i + 1 .. n : q[k] # Start
    \/ list = <<>> /\ \A k \in 1 .. n : q[k] # Start
Paired(q, list, rest) ==
    /\ \A j \in 1 .. Len(q) : q[j] = Start => Cleared(q, list, j - 1)
    /\ rest = <<Start>> => Cleared(q, list, Len(q))

(* What is posted before the worker waits again: by the function it is in, *)
(* and by the handler of the timeout, if it has no time left.              *)
Posts(f) ==
    CASE f = "uart_rx" -> 5
      [] f \in {RxTimeout, "tail", "net_send", "send", "sent"} -> 4
      [] f = "flow" -> 2
      [] OTHER -> 0
Pending(list) == list # <<>> /\ list[1].time = 0
Coming(rest, f, list) == Len(rest) + Posts(f) + (IF Pending(list) THEN 4 ELSE 0)

(* With n more to come the mailbox holds at most 18, and at most 9 behind  *)
(* the one message to uart_rx.                                             *)
Fits(q, n) ==
    /\ n \in 0 .. 9
    /\ \A i, j \in 1 .. Len(q) : q[i] = RxWake /\ q[j] = RxWake => i = j
    /\ NoWake(q) => Len(q) + n <= 18
    /\ \A i \in 1 .. Len(q) : q[i] = RxWake => Len(q) + n <= 19 /\ Len(q) - i + n <= 9

Rests == {<<>>, <<Stop>>, <<Stop, Start>>, <<Start>>}
Short(list) == Len(list) <= 1 /\ (list # <<>> => list[1].h = RxTimeout)
RoomInv ==
    /\ \A i \in 1 .. Len(mbox) : mbox[i] \in {RxWake, Stop, Start}
    /\ todo \in Rests
    /\ At \in {"loop", "wait"} \cup Busy
    /\ pc = "wait" => todo = <<>> /\ ~Pending(timers)
    /\ Short(timers)
    /\ \A w \in Writer : writer[w].pc = "idle"
    /\ missed = {}
    /\ Paired(mbox, timers, todo)
    /\ Fits(mbox, Coming(todo, At, timers))

LEMMA Distinct ==
  RxWake # Stop /\ RxWake # Start /\ Stop # Start
BY DEF RxWake, Stop, Start, Static, Timeout, Untimeout

LEMMA FitsFewer ==
  ASSUME NEW q \in Seq(Message), NEW n, Fits(q, n), NEW m \in 0 .. n
  PROVE  Fits(q, m)
<1>1. n \in 0 .. 9 /\ Len(q) \in Nat
  BY DEF Fits
<1> QED
  BY <1>1 DEF Fits

LEMMA FitsOwn ==
  ASSUME NEW q \in Seq(Message), NEW n \in Nat, Fits(q, n + 1), NEW e \in {Stop, Start}
  PROVE  Fits(Append(q, e), n)
<1> DEFINE r == Append(q, e)
<1>1. /\ Len(q) \in Nat /\ Len(r) = Len(q) + 1 /\ r[Len(q) + 1] = e
      /\ \A i \in 1 .. Len(q) : r[i] = q[i]
  OBVIOUS
<1>2. e # RxWake
  BY Distinct
<1> HIDE DEF r
<1>3. \A i \in 1 .. Len(r) : r[i] = RxWake => i \in 1 .. Len(q) /\ q[i] = RxWake
  BY <1>1, <1>2
<1>4. NoWake(r) => NoWake(q)
  BY <1>1 DEF NoWake
<1>5. n \in 0 .. 9
  BY DEF Fits
<1>6. \A i, j \in 1 .. Len(r) : r[i] = RxWake /\ r[j] = RxWake => i = j
  BY <1>3 DEF Fits
<1>7. NoWake(r) => Len(r) + n <= 18
  BY <1>1, <1>4 DEF Fits
<1>8. \A i \in 1 .. Len(r) : r[i] = RxWake => Len(r) + n <= 19 /\ Len(r) - i + n <= 9
  BY <1>1, <1>3 DEF Fits
<1> QED
  BY <1>5, <1>6, <1>7, <1>8 DEF Fits, r

LEMMA FitsWake ==
  ASSUME NEW q \in Seq(Message), NEW n, Fits(q, n), NoWake(q)
  PROVE  Fits(Append(q, RxWake), n)
<1> DEFINE r == Append(q, RxWake)
<1>1. /\ Len(q) \in Nat /\ Len(r) = Len(q) + 1 /\ r[Len(q) + 1] = RxWake
      /\ \A i \in 1 .. Len(q) : r[i] = q[i]
  OBVIOUS
<1>2. n \in 0 .. 9 /\ Len(q) + n <= 18
  BY DEF Fits
<1> HIDE DEF r
<1>3. \A i \in 1 .. Len(r) : r[i] = RxWake => i = Len(r)
  BY <1>1 DEF NoWake
<1>4. ~NoWake(r)
  BY <1>1 DEF NoWake
<1>5. \A i \in 1 .. Len(r) : r[i] = RxWake => Len(r) + n <= 19 /\ Len(r) - i + n <= 9
  BY <1>1, <1>2, <1>3
<1> QED
  BY <1>2, <1>3, <1>4, <1>5 DEF Fits, r

LEMMA FitsTail ==
  ASSUME NEW q \in Seq(Message), q # <<>>, Fits(q, 0), NEW n \in 0 .. 9,
         Head(q) # RxWake => n = 0
  PROVE  /\ Fits(Tail(q), n)
         /\ Head(q) = RxWake => NoWake(Tail(q))
<1> DEFINE r == Tail(q)
<1>1. /\ Len(q) \in Nat /\ Len(q) > 0 /\ Len(r) = Len(q) - 1 /\ Head(q) = q[1]
      /\ \A i \in 1 .. Len(r) : r[i] = q[i + 1] /\ i + 1 \in 1 .. Len(q) /\ i + 1 # 1
  OBVIOUS
<1> HIDE DEF r
<1>2. 1 \in 1 .. Len(q)
  BY <1>1
<1>3. ASSUME NEW i \in 1 .. Len(r), NEW j \in 1 .. Len(r), r[i] = RxWake, r[j] = RxWake
      PROVE  i = j
  <2>1. i + 1 = j + 1
    BY <1>1, <1>3 DEF Fits
  <2> QED
    BY <1>1, <2>1
<1>4. CASE q[1] = RxWake
  <2>1. NoWake(r)
    <3> SUFFICES ASSUME NEW i \in 1 .. Len(r), r[i] = RxWake PROVE FALSE
      BY DEF NoWake
    <3>1. q[i + 1] = RxWake /\ i + 1 \in 1 .. Len(q) /\ i + 1 # 1
      BY <1>1
    <3> QED
      BY <1>2, <1>4, <3>1 DEF Fits
  <2>2. Len(q) - 1 + 0 <= 9
    BY <1>2, <1>4 DEF Fits
  <2>3. Len(r) + n <= 18
    BY <1>1, <2>2
  <2> QED
    BY <1>3, <2>1, <2>3 DEF Fits, NoWake, r
<1>5. CASE q[1] # RxWake
  <2>1. n = 0
    BY <1>1, <1>5
  <2>2. NoWake(r) => NoWake(q)
    <3> SUFFICES ASSUME NoWake(r), NEW i \in 1 .. Len(q), q[i] = RxWake PROVE FALSE
      BY DEF NoWake
    <3>1. i - 1 \in 1 .. Len(r) /\ (i - 1) + 1 = i
      BY <1>1, <1>5
    <3> QED
      BY <1>1, <3>1 DEF NoWake
  <2>3. NoWake(r) => Len(r) + n <= 18
    BY <1>1, <2>1, <2>2 DEF Fits
  <2>4. ASSUME NEW i \in 1 .. Len(r), r[i] = RxWake
        PROVE  Len(r) + n <= 19 /\ Len(r) - i + n <= 9
    <3>1. Len(q) + 0 <= 19 /\ Len(q) - (i + 1) + 0 <= 9
      BY <1>1, <2>4 DEF Fits
    <3> QED
      BY <1>1, <2>1, <3>1
  <2> QED
    BY <1>1, <1>3, <1>5, <2>3, <2>4 DEF Fits, r
<1> QED
  BY <1>1, <1>4, <1>5

LEMMA ClearedAppend ==
  ASSUME NEW q \in Seq(Message), NEW e \in Message, NEW list, NEW n \in 0 .. Len(q)
  PROVE  Cleared(q, list, n) => Cleared(Append(q, e), list, n)
<1> DEFINE r == Append(q, e)
<1>1. Len(q) \in Nat /\ \A i \in 1 .. Len(q) : r[i] = q[i]
  OBVIOUS
<1>2. \A i \in 1 .. n : i \in 1 .. Len(q) /\ \A k \in i + 1 .. n : k \in 1 .. Len(q)
  BY <1>1
<1> HIDE DEF r
<1>3. Cleared(q, list, n) => Cleared(r, list, n)
  BY <1>1, <1>2 DEF Cleared
<1> QED
  BY <1>3 DEF r

LEMMA PairedWake ==
  ASSUME NEW q \in Seq(Message), NEW list, NEW rest, Paired(q, list, rest)
  PROVE  Paired(Append(q, RxWake), list, rest)
<1> DEFINE r == Append(q, RxWake)
<1>0. RxWake \in Message
  BY Names DEF RxWake, Static, Message
<1>1. /\ Len(q) \in Nat /\ Len(r) = Len(q) + 1 /\ r[Len(q) + 1] = RxWake
      /\ \A i \in 1 .. Len(q) : r[i] = q[i]
  OBVIOUS
<1>2. \A n \in 0 .. Len(q) : Cleared(q, list, n) => Cleared(r, list, n)
  BY <1>0, ClearedAppend
<1> HIDE DEF r
<1>3. ASSUME NEW j \in 1 .. Len(r), r[j] = Start
      PROVE  Cleared(r, list, j - 1)
  <2>1. j \in 1 .. Len(q) /\ j - 1 \in 0 .. Len(q) /\ q[j] = Start
    BY <1>1, <1>3, Distinct
  <2> QED
    BY <1>2, <2>1 DEF Paired
<1>4. Cleared(r, list, Len(q)) => Cleared(r, list, Len(r))
  <2>1. \A k \in 1 .. Len(r) : k \in 1 .. Len(q) \/ r[k] # Start
    BY <1>1, Distinct
  <2> QED
    BY <1>1, <2>1 DEF Cleared
<1>5. rest = <<Start>> => Cleared(r, list, Len(r))
  BY <1>1, <1>2, <1>4 DEF Paired
<1> QED
  BY <1>3, <1>5 DEF Paired, r

LEMMA PairedPost ==
  ASSUME NEW q \in Seq(Message), NEW list, NEW rest \in Rests, rest # <<>>, Paired(q, list, rest)
  PROVE  /\ Paired(Append(q, Head(rest)), list, Tail(rest))
         /\ Tail(rest) \in Rests /\ Head(rest) \in {Stop, Start} /\ Head(rest) \in Message
         /\ Len(rest) = Len(Tail(rest)) + 1 /\ Len(Tail(rest)) \in Nat
<1> DEFINE e == Head(rest)
           r == Append(q, e)
<1>0. Stop \in Message /\ Start \in Message
  BY Names DEF Stop, Start, Timeout, Untimeout, Message
<1>1. /\ e \in {Stop, Start} /\ (e = Start => rest = <<Start>>)
      /\ Tail(rest) \in Rests /\ (Tail(rest) = <<Start>> => e = Stop)
      /\ Len(rest) = Len(Tail(rest)) + 1 /\ Len(Tail(rest)) \in Nat
  <2>1. CASE rest = <<Stop>>
    <3>1. Head(rest) = Stop /\ Tail(rest) = <<>> /\ Len(rest) = 1 /\ Len(<<>>) = 0 /\ <<>> # <<Start>>
      BY <2>1
    <3> QED
      BY <3>1, Distinct DEF Rests
  <2>2. CASE rest = <<Stop, Start>>
    <3>1. Head(rest) = Stop /\ Tail(rest) = <<Start>> /\ Len(rest) = 2 /\ Len(<<Start>>) = 1
      BY <2>2
    <3> QED
      BY <3>1, Distinct DEF Rests
  <2>3. CASE rest = <<Start>>
    <3>1. Head(rest) = Start /\ Tail(rest) = <<>> /\ Len(rest) = 1 /\ Len(<<>>) = 0 /\ <<>> # <<Start>>
      BY <2>3
    <3> QED
      BY <2>3, <3>1, Distinct DEF Rests
  <2> QED
    BY <2>1, <2>2, <2>3 DEF Rests
<1>2. e \in Message
  BY <1>0, <1>1
<1> HIDE DEF e
<1>3. /\ Len(q) \in Nat /\ Len(r) = Len(q) + 1 /\ r[Len(q) + 1] = e
      /\ \A i \in 1 .. Len(q) : r[i] = q[i]
  BY <1>2
<1>4. \A n \in 0 .. Len(q) : Cleared(q, list, n) => Cleared(r, list, n)
  BY <1>2, ClearedAppend
<1> HIDE DEF r
<1>5. ASSUME NEW j \in 1 .. Len(r), r[j] = Start
      PROVE  Cleared(r, list, j - 1)
  <2>1. CASE j \in 1 .. Len(q)
    <3>1. j - 1 \in 0 .. Len(q) /\ q[j] = Start
      BY <1>3, <1>5, <2>1
    <3> QED
      BY <1>4, <2>1, <3>1 DEF Paired
  <2>2. CASE j = Len(q) + 1
    <3>1. rest = <<Start>> /\ j - 1 = Len(q) /\ Len(q) \in 0 .. Len(q)
      BY <1>1, <1>3, <1>5, <2>2
    <3> QED
      BY <1>4, <3>1 DEF Paired
  <2> QED
    BY <1>3, <2>1, <2>2
<1>6. ASSUME e = Stop
      PROVE  Cleared(r, list, Len(r))
  <2>1. Len(r) \in 1 .. Len(r) /\ r[Len(r)] = Stop /\ Len(r) + 1 .. Len(r) = {}
    BY <1>3, <1>6
  <2> QED
    BY <2>1 DEF Cleared
<1>7. Paired(r, list, Tail(rest))
  BY <1>1, <1>5, <1>6 DEF Paired
<1> QED
  BY <1>1, <1>2, <1>7 DEF e, r

(* A message is received: uart_rx leaves an empty list empty, untimeout    *)
(* empties it, and timeout finds it empty.                                 *)
LEMMA PairedTail ==
  ASSUME NEW q \in Seq(Message), q # <<>>, NEW list, NEW next,
         Paired(q, list, <<>>), q[1] \in {RxWake, Stop, Start},
         q[1] = RxWake => (list = <<>> => next = <<>>),
         q[1] = Stop => next = <<>>
  PROVE  /\ Paired(Tail(q), next, <<>>)
         /\ q[1] = Start => list = <<>>
<1> DEFINE r == Tail(q)
<1>1. /\ Len(q) \in Nat /\ Len(q) > 0 /\ Len(r) = Len(q) - 1
      /\ \A i \in 1 .. Len(r) : r[i] = q[i + 1] /\ i + 1 \in 1 .. Len(q)
  OBVIOUS
<1> HIDE DEF r
<1>2. ASSUME NEW n \in 0 .. Len(r), Cleared(q, list, n + 1)
      PROVE  Cleared(r, next, n)
  <2>0. /\ n \in Nat /\ 1 \in 1 .. n + 1
        /\ \A k \in 1 .. n : k \in 1 .. Len(r) /\ k + 1 \in 1 .. n + 1 /\ r[k] = q[k + 1]
    BY <1>1
  <2>1. CASE list = <<>> /\ \A k \in 1 .. n + 1 : q[k] # Start
    <3>1. next = <<>>
      BY <2>0, <2>1
    <3>2. \A k \in 1 .. n : r[k] # Start
      BY <2>0, <2>1
    <3> QED
      BY <3>1, <3>2 DEF Cleared
  <2>2. ASSUME NEW i \in 1 .. n + 1, q[i] = Stop, \A k \in i + 1 .. n + 1 : q[k] # Start
        PROVE  Cleared(r, next, n)
    <3>1. CASE i = 1
      <4>1. \A k \in 1 .. n : r[k] # Start
        BY <2>0, <2>2, <3>1
      <4> QED
        BY <2>2, <3>1, <4>1 DEF Cleared
    <3>2. CASE i > 1
      <4>1. i - 1 \in 1 .. n /\ r[i - 1] = Stop
        BY <2>0, <2>2, <3>2
      <4>2. ASSUME NEW k \in (i - 1) + 1 .. n
            PROVE  r[k] # Start
        <5>1. k \in 1 .. n /\ k + 1 \in i + 1 .. n + 1
          BY <2>0, <3>2
        <5> QED
          BY <2>0, <2>2, <5>1
      <4> QED
        BY <4>1, <4>2 DEF Cleared
    <3> QED
      BY <2>0, <3>1, <3>2
  <2> QED
    BY <1>2, <2>1, <2>2 DEF Cleared
<1>3. ASSUME NEW j \in 1 .. Len(r), r[j] = Start
      PROVE  Cleared(r, next, j - 1)
  <2>1. j + 1 \in 1 .. Len(q) /\ q[j + 1] = Start /\ (j + 1) - 1 = (j - 1) + 1 /\ j - 1 \in 0 .. Len(r)
    BY <1>1, <1>3
  <2>2. Cleared(q, list, (j - 1) + 1)
    BY <2>1 DEF Paired
  <2> QED
    BY <1>2, <2>1, <2>2
<1>4. q[1] = Start => list = <<>>
  <2> SUFFICES ASSUME q[1] = Start PROVE list = <<>>
    OBVIOUS
  <2>1. Cleared(q, list, 1 - 1) /\ 1 .. 1 - 1 = {}
    BY <1>1 DEF Paired
  <2> QED
    BY <2>1 DEF Cleared
<1>5. <<>> # <<Start>>
  OBVIOUS
<1> QED
  BY <1>3, <1>4, <1>5 DEF Paired, r

LEMMA PairedFrame ==
  ASSUME NEW q, NEW list, NEW next, NEW rest, NEW more, Paired(q, list, rest),
         list = <<>> => next = <<>>, more = rest \/ more # <<Start>>
  PROVE  Paired(q, next, more)
<1>1. \A n : Cleared(q, list, n) => Cleared(q, next, n)
  BY DEF Cleared
<1> QED
  BY <1>1 DEF Paired

(* The list of the one timeout.                                            *)
LEMMA EmptyList ==
  ASSUME NEW list \in List
  PROVE  Len(list) = 0 <=> list = <<>>
BY DEF List

LEMMA ShortList ==
  ASSUME NEW list \in List, Short(list), list # <<>>
  PROVE  Len(list) = 1 /\ list[1].h = RxTimeout
<1>1. Len(list) <= 1 /\ list[1].h = RxTimeout
  BY Zenon DEF Short
<1>2. Len(list) # 0 /\ Len(list) \in Nat
  BY EmptyList, ListType
<1> DEFINE n == Len(list)
<1>3. n <= 1 /\ n # 0 /\ n \in Nat
  BY <1>1, <1>2
<1> HIDE DEF n
<1>4. n = 1
  BY <1>3
<1> QED
  BY <1>1, <1>4, Zenon DEF n

LEMMA WaitedShort ==
  ASSUME TypeInv, Short(timers)
  PROVE  Short(Waited) /\ Waited \in List /\ (timers = <<>> => Waited = <<>>)
<1> DEFINE w == TicksElapsed * TickMs
<1>1. w \in Nat /\ timers \in List
  BY ElapsedType DEF TypeInv
<1>2. CASE timers = <<>>
  BY <1>1, <1>2 DEF Waited
<1>3. CASE timers # <<>>
  <2>1. Waited = [timers EXCEPT ![1].time = Monus(@, w)]
    BY <1>3 DEF Waited
  <2> HIDE DEF w
  <2>2. /\ Waited \in List /\ Len(Waited) = Len(timers)
        /\ \A i \in 1 .. Len(timers) : Waited[i].h = timers[i].h
    BY <1>1, <1>3, <2>1, WaitedList
  <2>3. 1 \in 1 .. Len(timers)
    BY <1>1, <1>3 DEF List
  <2> QED
    BY <1>3, <2>2, <2>3 DEF Short
<1> QED
  BY <1>2, <1>3

LEMMA UntimeoutShort ==
  ASSUME NEW list \in List, Short(list)
  PROVE  UntimeoutP(list, RxTimeout) = <<>>
<1>0. RxTimeout \in Handler /\ Len(list) \in Nat
  BY Names, ListType
<1>1. CASE list = <<>>
  <2>1. {i \in DOMAIN list : list[i].h = RxTimeout} = {}
    BY <1>1
  <2> QED
    BY <1>1, <2>1 DEF UntimeoutP
<1>2. CASE list # <<>>
  <2>1. 1 \in 1 .. Len(list) /\ list[1].h = RxTimeout /\ Len(list) = 1
    BY <1>2, ShortList
  <2>2. UntimeoutP(list, RxTimeout) \in List /\ Len(UntimeoutP(list, RxTimeout)) = Len(list) - 1
    BY <1>0, <2>1, UntimeoutPList
  <2> QED
    BY <2>1, <2>2, EmptyList
<1> QED
  BY <1>1, <1>2

LEMMA TimeoutShort ==
  ASSUME Delay[RxTimeout] > 0
  PROVE  LET m == TimeoutP(<<>>, RxTimeout)
         IN  m \in List /\ Short(m) /\ ~Pending(m)
<1> DEFINE m == TimeoutP(<<>>, RxTimeout)
<1>0. RxTimeout \in Handler /\ <<>> \in List /\ Len(<<>>) = 0 /\ Delay[RxTimeout] \in Nat
  BY Names, WlTaskAssumption DEF List
<1>1. PICK k \in 0 .. Len(<<>>) :
         /\ m \in List /\ Len(m) = Len(<<>>) + 1
         /\ m[k + 1].h = RxTimeout /\ TimeTo(m, k + 1) = Delay[RxTimeout]
  BY <1>0, TimeoutPList
<1>2. k = 0 /\ Len(m) = 1 /\ m[1].h = RxTimeout /\ TimeTo(m, 1) = Delay[RxTimeout]
  BY <1>0, <1>1
<1> HIDE DEF m
<1>3. 1 \in 1 .. Len(m) /\ 1 - 1 = 0 /\ m \in List
  BY <1>1, <1>2
<1>4. TimeTo(m, 0) = 0 /\ TimeTo(m, 1) = TimeTo(m, 1 - 1) + m[1].time /\ m[1].time \in Nat
  BY <1>3, TimeToStep, ListType
<1>5. m[1].time > 0
  BY <1>0, <1>2, <1>3, <1>4
<1>6. Short(m) /\ ~Pending(m)
  BY <1>2, <1>4, <1>5 DEF Short, Pending
<1> QED
  BY <1>3, <1>6 DEF m

LEMMA ExpireShort ==
  ASSUME TypeInv, Short(timers), Expire
  PROVE  timers' = <<>> /\ pc' = RxTimeout
<1> DEFINE e == TickMs - 1
<1>1. /\ timers # <<>> /\ timers \in List /\ Head(timers) = timers[1] /\ e \in Nat
      /\ timers' = [i \in 1 .. Len(timers) - 1 |-> [timers[i + 1] EXCEPT !.due = Monus(@, e)]]
      /\ pc' = Head(timers).h
  <2>1. e \in Nat
    BY Numbers
  <2> QED
    BY <2>1 DEF Expire, Expired, TypeInv, List
<1> HIDE DEF e
<1>2. timers' \in List /\ Len(timers') = Len(timers) - 1
  BY <1>1, ExpiredList
<1>3. Len(timers) = 1
  BY <1>1, ShortList
<1> QED
  BY <1>1, <1>2, <1>3, EmptyList DEF Short

LEMMA TickShort ==
  ASSUME TypeInv, Short(timers), Tick
  PROVE  Short(timers') /\ (Pending(timers') <=> Pending(timers)) /\ (timers = <<>> => timers' = <<>>)
<1>1. /\ timers \in List /\ TickMs \in Nat
      /\ timers' = [i \in DOMAIN timers |-> [timers[i] EXCEPT !.due = Monus(@, TickMs)]]
  BY Numbers DEF Tick, TypeInv
<1>2. /\ timers' \in List /\ Len(timers') = Len(timers)
      /\ \A i \in 1 .. Len(timers) : timers'[i].h = timers[i].h /\ timers'[i].time = timers[i].time
  BY <1>1, TickList
<1>3. timers # <<>> <=> 1 \in 1 .. Len(timers)
  BY <1>1, EmptyList, ListType
<1>4. timers = <<>> <=> timers' = <<>>
  BY <1>1, <1>2, EmptyList
<1> QED
  BY <1>2, <1>3, <1>4 DEF Short, Pending

LEMMA PostsType ==
  \A f : Posts(f) \in Nat /\ Posts(f) <= 5 /\ (f # "uart_rx" => Posts(f) <= 4)
BY DEF Posts

LEMMA RestsType ==
  ASSUME NEW rest \in Rests
  PROVE  Len(rest) \in Nat /\ Len(rest) <= 2
<1>1. Len(<<>>) = 0 /\ Len(<<Stop>>) = 1 /\ Len(<<Start>>) = 1 /\ Len(<<Stop, Start>>) = 2
  OBVIOUS
<1> DEFINE n == Len(rest)
<1>2. n = 0 \/ n = 1 \/ n = 2
  BY <1>1, Zenon DEF Rests
<1> HIDE DEF n
<1>3. n \in Nat /\ n <= 2
  BY <1>2
<1> QED
  BY <1>3, Zenon DEF n

LEMMA ComingType ==
  ASSUME NEW rest \in Rests, NEW f, NEW list
  PROVE  Coming(rest, f, list) \in Nat
BY RestsType, PostsType DEF Coming

(* Steps that leave the mailbox alone.                                     *)
LEMMA RoomFrame ==
  ASSUME TypeInv, RoomInv, UNCHANGED <<mbox, missed, writer>>,
         todo' \in Rests, todo' = todo \/ todo' # <<Start>>,
         At' \in {"loop", "wait"} \cup Busy, pc' = "wait" => todo' = <<>> /\ ~Pending(timers'),
         Short(timers'), timers = <<>> => timers' = <<>>,
         Coming(todo', At', timers') <= Coming(todo, At, timers)
  PROVE  RoomInv'
<1>1. mbox \in Seq(Message)
  BY DEF TypeInv
<1>2. /\ Paired(mbox, timers, todo) /\ Fits(mbox, Coming(todo, At, timers))
      /\ todo \in Rests
  BY DEF RoomInv
<1>3. Paired(mbox, timers', todo')
  BY <1>2, PairedFrame
<1>4. Coming(todo', At', timers') \in 0 .. Coming(todo, At, timers)
  BY <1>2, ComingType
<1>5. Fits(mbox, Coming(todo', At', timers'))
  BY <1>1, <1>2, <1>4, FitsFewer
<1>6. Paired(mbox', timers', todo') /\ Fits(mbox', Coming(todo', At', timers'))
  BY <1>3, <1>5
<1> QED
  BY <1>6 DEF RoomInv

LEMMA PostsValue ==
  /\ Posts("uart_rx") = 5 /\ Posts(RxTimeout) = 4 /\ Posts("tail") = 4 /\ Posts("net_send") = 4
  /\ Posts("send") = 4 /\ Posts("sent") = 4 /\ Posts("flow") = 2 /\ Posts("loop") = 0 /\ Posts("wait") = 0
BY DEF Posts, RxTimeout

(* A mailbox for more than 18 messages has room for what is to come.       *)
LEMMA RoomLeft ==
  ASSUME TypeInv, setup.mboxSize > 18, NEW n \in Nat, Fits(mbox, n), NoWake(mbox) \/ n > 0
  PROVE  ~Full
<1>1. Len(mbox) \in Nat /\ setup.mboxSize \in Nat
  BY Bounds DEF TypeInv
<1>2. Len(mbox) <= 18
  <2>1. CASE NoWake(mbox)
    <3>1. Len(mbox) + n <= 18
      BY <2>1 DEF Fits
    <3> QED
      BY <1>1, <3>1
  <2>2. CASE ~NoWake(mbox)
    <3>1. PICK i \in 1 .. Len(mbox) : mbox[i] = RxWake
      BY <2>2 DEF NoWake
    <3>2. Len(mbox) + n <= 19 /\ n > 0
      BY <2>2, <3>1 DEF Fits
    <3> QED
      BY <1>1, <3>2
  <2> QED
    BY <2>1, <2>2
<1> QED
  BY <1>1, <1>2 DEF Full

LEMMA RoomPostOwn ==
  ASSUME TypeInv, RoomInv, ReceiverAlone, setup.mboxSize > 18, PostOwn, UNCHANGED writer
  PROVE  RoomInv'
<1>1. /\ todo # <<>> /\ todo \in Rests /\ todo' = Tail(todo) /\ UNCHANGED <<pc, timers>>
      /\ mbox \in Seq(Message) /\ At' = At
  BY DEF PostOwn, RoomInv, TypeInv, At
<1>2. /\ Paired(Append(mbox, Head(todo)), timers, todo') /\ todo' \in Rests
      /\ Head(todo) \in {Stop, Start} /\ Head(todo) \in Message
      /\ Len(todo) = Len(todo') + 1 /\ Len(todo') \in Nat
  BY <1>1, PairedPost DEF RoomInv
<1> DEFINE n == Coming(todo', At, timers)
<1>3. Coming(todo, At, timers) = n + 1 /\ n \in Nat
  BY <1>2, PostsType DEF Coming
<1> HIDE DEF n
<1>4. Fits(mbox, n + 1)
  BY <1>3 DEF RoomInv
<1>5. ~Full
  BY <1>3, <1>4, RoomLeft
<1>6. ~(faults < setup.maxFault)
  BY Bounds DEF TypeInv, ReceiverAlone
<1>7. mbox' = Append(mbox, Head(todo)) /\ missed' = {}
  BY <1>5, <1>6 DEF PostOwn, Posted, RoomInv
<1>8. Fits(mbox', n)
  BY <1>1, <1>2, <1>3, <1>4, <1>7, FitsOwn
<1>9. \A i \in 1 .. Len(mbox') : mbox'[i] \in {RxWake, Stop, Start}
  <2>1. /\ Len(mbox) \in Nat /\ Len(mbox') = Len(mbox) + 1 /\ mbox'[Len(mbox) + 1] = Head(todo)
        /\ \A i \in 1 .. Len(mbox) : mbox'[i] = mbox[i]
    BY <1>1, <1>2, <1>7
  <2> QED
    BY <1>2, <2>1 DEF RoomInv
<1>10. Paired(mbox', timers', todo') /\ Fits(mbox', Coming(todo', At', timers'))
  BY <1>1, <1>2, <1>7, <1>8 DEF n
<1>11. pc # "wait" /\ pc' = pc
  BY <1>1 DEF RoomInv
<1> QED
  BY <1>1, <1>2, <1>7, <1>9, <1>10, <1>11 DEF RoomInv

LEMMA RoomInterrupt ==
  ASSUME TypeInv, CountInv, RoomInv, setup.mboxSize > 18, NEW k \in 0 .. RxMax, RxInterrupt(k)
  PROVE  RoomInv'
<1>1. /\ CallbackStatic("uart_rx", "uart1") /\ UNCHANGED <<setup, timers, pc, todo, writer>>
      /\ mbox \in Seq(Message) /\ At' = At
  BY DEF RxInterrupt, txVars, TypeInv, At
<1> DEFINE n == Coming(todo, At, timers)
<1>2. /\ todo \in Rests /\ Paired(mbox, timers, todo) /\ Fits(mbox, n) /\ n \in Nat
      /\ \A i \in 1 .. Len(mbox) : mbox[i] \in {RxWake, Stop, Start}
      /\ missed = {}
  BY ComingType DEF RoomInv
<1> HIDE DEF n
<1>3. CASE cnt["uart_rx"] > 0
  BY <1>1, <1>3 DEF CallbackStatic, mboxVars, RoomInv
<1>4. CASE ~(cnt["uart_rx"] > 0)
  <2>1. Copies("uart_rx") = 0
    BY <1>4, CountTypes DEF CountInv, Owned
  <2>2. NoWake(mbox)
    BY <1>1, <2>1, CopiesCount, CountType DEF NoWake, RxWake
  <2>3. ~Full
    BY <1>2, <2>2, RoomLeft
  <2>4. mbox' = Append(mbox, RxWake) /\ missed' = {}
    BY <1>1, <1>2, <1>4, <2>3 DEF CallbackStatic, RxWake
  <2>5. Fits(mbox', n) /\ Paired(mbox', timers, todo)
    BY <1>1, <1>2, <2>2, <2>4, FitsWake, PairedWake
  <2>6. \A i \in 1 .. Len(mbox') : mbox'[i] \in {RxWake, Stop, Start}
    <3>1. RxWake \in Message
      BY Names DEF RxWake, Static, Message
    <3>2. /\ Len(mbox) \in Nat /\ Len(mbox') = Len(mbox) + 1 /\ mbox'[Len(mbox) + 1] = RxWake
          /\ \A i \in 1 .. Len(mbox) : mbox'[i] = mbox[i]
      BY <1>1, <2>4, <3>1
    <3> QED
      BY <1>2, <3>2
  <2>7. Paired(mbox', timers', todo') /\ Fits(mbox', Coming(todo', At', timers'))
    BY <1>1, <2>5 DEF n
  <2> QED
    BY <1>1, <2>4, <2>6, <2>7 DEF RoomInv
<1> QED
  BY <1>3, <1>4

(* Only the message to uart_rx lets the timeout expire behind it.          *)
LEMMA RoomReceive ==
  ASSUME TypeInv, RoomInv, ReceiverAlone, Delay[RxTimeout] > 0, UNCHANGED writer,
         ReceiveStatic \/ ReceiveCallback \/ ReceiveTimeout \/ ReceiveUntimeout
  PROVE  RoomInv'
<1>1. /\ pc = "wait" /\ mbox # <<>> /\ mbox' = Tail(mbox) /\ todo' = todo /\ mbox \in Seq(Message)
  BY DEF ReceiveStatic, ReceiveCallback, ReceiveTimeout, ReceiveUntimeout, Receive, TypeInv
<1>2. /\ todo = <<>> /\ ~Pending(timers) /\ Paired(mbox, timers, <<>>) /\ Short(timers)
      /\ Fits(mbox, Coming(<<>>, "wait", timers)) /\ todo' \in Rests
      /\ \A i \in 1 .. Len(mbox) : mbox[i] \in {RxWake, Stop, Start}
      /\ missed = {} /\ \A w \in Writer : writer[w].pc = "idle"
  BY <1>1 DEF RoomInv, Rests, At, Taking
<1>3. Len(<<>>) = 0 /\ Coming(<<>>, "wait", timers) = 0 /\ Fits(mbox, 0)
  <2>1. Len(<<>>) = 0
    OBVIOUS
  <2>2. Coming(<<>>, "wait", timers) = 0
    BY <1>2, <2>1, PostsValue DEF Coming
  <2> QED
    BY <1>2, <2>1, <2>2
<1>4. Short(Waited) /\ Waited \in List /\ (timers = <<>> => Waited = <<>>)
  BY <1>2, WaitedShort
<1>5. /\ Head(mbox) = mbox[1] /\ mbox[1] \in {RxWake, Stop, Start}
      /\ \A i \in 1 .. Len(mbox') : mbox'[i] \in {RxWake, Stop, Start}
  <2>1. /\ Len(mbox) \in Nat /\ Len(mbox) > 0 /\ Len(mbox') = Len(mbox) - 1 /\ Head(mbox) = mbox[1]
        /\ \A i \in 1 .. Len(mbox') : mbox'[i] = mbox[i + 1] /\ i + 1 \in 1 .. Len(mbox)
    BY <1>1
  <2> QED
    BY <1>2, <2>1
<1>6. ~(faults < setup.maxFault)
  BY Bounds DEF TypeInv, ReceiverAlone
<1>7. /\ RxWake.type = "static" /\ RxWake.of = "uart_rx"
      /\ Stop.type = "untimeout" /\ Stop.of = RxTimeout
      /\ Start.type = "timeout" /\ Start.of = RxTimeout
  BY DEF RxWake, Stop, Start, Static, Timeout, Untimeout
<1>8. missed' = missed
  BY <1>6 DEF ReceiveStatic, ReceiveCallback, ReceiveTimeout, ReceiveUntimeout
<1>9. ASSUME Short(timers'), At' \in {"loop", "uart_rx"}, pc' # "wait", NEW n \in 0 .. 9,
             Coming(<<>>, At', timers') = n, mbox[1] # RxWake => n = 0,
             mbox[1] = RxWake => (timers = <<>> => timers' = <<>>),
             mbox[1] = Stop => timers' = <<>>
      PROVE  RoomInv'
  <2>1. Fits(mbox', n)
    BY <1>1, <1>3, <1>5, <1>9, FitsTail
  <2>2. Paired(mbox', timers', <<>>)
    BY <1>1, <1>2, <1>5, <1>9, PairedTail
  <2>3. Paired(mbox', timers', todo') /\ Fits(mbox', Coming(todo', At', timers'))
    BY <1>1, <1>2, <1>9, <2>1, <2>2
  <2>4. At' \in {"loop", "wait"} \cup Busy
    BY <1>9 DEF Busy
  <2>5. \A w \in Writer : writer'[w].pc = "idle"
    BY <1>2
  <2> QED
    BY <1>2, <1>5, <1>8, <1>9, <2>3, <2>4, <2>5 DEF RoomInv
<1>10. CASE mbox[1] = RxWake
  <2>1. timers' = Waited /\ pc' = "argu" /\ At' = "uart_rx"
    BY <1>5, <1>7, <1>10
       DEF ReceiveStatic, ReceiveCallback, ReceiveTimeout, ReceiveUntimeout, At, Taking, NotTaken
  <2>2. Coming(<<>>, At', timers') \in 0 .. 9
    BY <1>3, <2>1, PostsValue DEF Coming
  <2> QED
    BY <1>4, <1>9, <1>10, <2>1, <2>2, Distinct
<1>11. CASE mbox[1] = Stop
  <2>1. timers' = <<>> /\ pc' = "loop"
    <3>1. timers' = UntimeoutP(Waited, RxTimeout) /\ pc' = "loop"
      BY <1>5, <1>7, <1>11 DEF ReceiveStatic, ReceiveCallback, ReceiveTimeout, ReceiveUntimeout
    <3> QED
      BY <1>4, <3>1, UntimeoutShort
  <2>2. Coming(<<>>, At', timers') = 0 /\ Short(timers') /\ At' = "loop"
    BY <1>3, <2>1, PostsValue DEF Coming, Pending, Short, At, Taking
  <2> QED
    BY <1>9, <1>11, <2>1, <2>2, Distinct
<1>12. CASE mbox[1] = Start
  <2>1. timers = <<>>
    BY <1>1, <1>2, <1>5, <1>12, PairedTail, Distinct
  <2>2. timers' = TimeoutP(<<>>, RxTimeout) /\ pc' = "loop"
    BY <1>4, <1>5, <1>6, <1>7, <1>12, <2>1
       DEF ReceiveStatic, ReceiveCallback, ReceiveTimeout, ReceiveUntimeout
  <2>3. Short(timers') /\ ~Pending(timers')
    BY <2>2, TimeoutShort
  <2>4. Coming(<<>>, At', timers') = 0 /\ At' = "loop"
    BY <1>3, <2>2, <2>3, PostsValue DEF Coming, At, Taking
  <2> QED
    BY <1>9, <1>12, <2>2, <2>3, <2>4, Distinct
<1> QED
  BY <1>5, <1>10, <1>11, <1>12

(* A function posts no more than it had to post.                           *)
LEMMA RoomFunction ==
  ASSUME TypeInv, RoomInv,
         UartRx \/ UartRxTimeout \/ ReadTail \/ Copy \/ Send \/ SendRefused \/ Sent \/ FlowOn
  PROVE  RoomInv'
<1>0. At = pc /\ At' = pc'
  BY DEF UartRx, UartRxTimeout, ReadTail, Copy, Send, SendRefused, Sent, FlowOn, AtFunction, At, Taking
<1>1. /\ todo = <<>> /\ UNCHANGED <<mbox, missed, timers, writer>>
      /\ Short(timers)
  BY DEF UartRx, UartRxTimeout, ReadTail, Copy, Send, SendRefused, Sent, FlowOn, AtFunction, mboxVars, txVars, RoomInv
<1>2. /\ Len(<<>>) = 0 /\ Len(<<Stop>>) = 1 /\ Len(<<Stop, Start>>) = 2
      /\ <<>> # <<Start>> /\ <<Stop>> # <<Start>> /\ <<Stop, Start>> # <<Start>>
  BY Distinct
<1>3. /\ <<>> \in Rests /\ <<Stop>> \in Rests /\ <<Stop, Start>> \in Rests
      /\ Restart(RxTimeout) = <<Stop, Start>> /\ <<Untimeout(RxTimeout)>> = <<Stop>>
  BY DEF Rests, Restart, Stop, Start
<1>4. ASSUME NEW n \in 0 .. 2, Len(todo') = n, todo' \in Rests, todo' # <<Start>>,
             pc' \in {"loop"} \cup Busy, n + Posts(pc') <= Posts(pc)
      PROVE  RoomInv'
  <2>1. Coming(todo', At', timers') <= Coming(todo, At, timers)
    BY <1>0, <1>1, <1>2, <1>4, PostsType DEF Coming
  <2>2. pc' # "wait"
    BY <1>4 DEF Busy
  <2> QED
    BY <1>0, <1>1, <1>4, <2>1, <2>2, RoomFrame
<1>5. CASE UartRx
  <2>1. \/ todo' = <<Stop>> /\ pc' = "tail"
        \/ todo' = <<Stop, Start>> /\ pc' = "loop"
    BY <1>3, <1>5 DEF UartRx, RxTimeout
  <2>2. pc = "uart_rx"
    BY <1>5 DEF UartRx, AtFunction
  <2>3. CASE todo' = <<Stop>> /\ pc' = "tail"
    BY <1>2, <1>3, <1>4, <2>2, <2>3, PostsValue DEF Busy
  <2>4. CASE todo' = <<Stop, Start>> /\ pc' = "loop"
    BY <1>2, <1>3, <1>4, <2>2, <2>4, PostsValue DEF Busy
  <2> QED
    BY <2>1, <2>3, <2>4
<1>6. CASE UartRxTimeout
  <2>1. todo' = <<>> /\ pc = RxTimeout /\ pc' \in {"tail", "loop"}
    BY <1>1, <1>6 DEF UartRxTimeout, AtFunction, RxTimeout
  <2> QED
    BY <1>2, <1>3, <1>4, <2>1, PostsValue DEF Busy
<1>12. CASE ReadTail
  <2>1. todo' = <<>> /\ pc = "tail" /\ pc' = "net_send"
    BY <1>1, <1>12 DEF ReadTail, AtFunction
  <2> QED
    BY <1>2, <1>3, <1>4, <2>1, PostsValue DEF Busy
<1>7. CASE Copy
  <2>1. todo' = <<>> /\ pc = "net_send" /\ pc' = "send"
    BY <1>1, <1>7 DEF Copy, AtFunction
  <2> QED
    BY <1>2, <1>3, <1>4, <2>1, PostsValue DEF Busy
<1>8. CASE Send
  <2>1. todo' = <<>> /\ pc = "send" /\ pc' = "sent"
    BY <1>1, <1>8 DEF Send, AtFunction
  <2> QED
    BY <1>2, <1>3, <1>4, <2>1, PostsValue DEF Busy
<1>9. CASE SendRefused
  <2>1. todo' = <<Stop, Start>> /\ pc = "send" /\ pc' = "loop"
    BY <1>3, <1>9 DEF SendRefused, AtFunction, RxTimeout
  <2> QED
    BY <1>2, <1>3, <1>4, <2>1, PostsValue DEF Busy
<1>10. CASE Sent
  <2>1. /\ pc = "sent" /\ pc' \in {"net_send", "flow"}
        /\ todo' = <<>> \/ (todo' = <<Stop, Start>> /\ pc' = "flow")
    BY <1>3, <1>10 DEF Sent, AtFunction, RxTimeout
  <2>2. CASE todo' = <<>>
    BY <1>2, <1>3, <1>4, <2>1, <2>2, PostsValue DEF Busy
  <2>3. CASE todo' = <<Stop, Start>> /\ pc' = "flow"
    BY <1>2, <1>3, <1>4, <2>1, <2>3, PostsValue DEF Busy
  <2> QED
    BY <2>1, <2>2, <2>3
<1>11. CASE FlowOn
  <2>1. pc = "flow" /\ pc' = "loop" /\ (todo' = <<>> \/ todo' = <<Stop, Start>>)
    BY <1>3, <1>11 DEF FlowOn, AtFunction, RxTimeout
  <2>2. CASE todo' = <<>>
    BY <1>2, <1>3, <1>4, <2>1, <2>2, PostsValue DEF Busy
  <2>3. CASE todo' = <<Stop, Start>>
    BY <1>2, <1>3, <1>4, <2>1, <2>3, PostsValue DEF Busy
  <2> QED
    BY <2>1, <2>2, <2>3
<1> QED
  BY <1>5, <1>6, <1>7, <1>8, <1>9, <1>10, <1>11, <1>12

LEMMA RoomStep ==
  ASSUME Delay[RxTimeout] > 0, TypeInv, CountInv, RoomInv, ReceiverAlone, setup.mboxSize > 18, [Next]_vars
  PROVE  RoomInv'
<1>0. Short(timers) /\ At \in {"loop", "wait"} \cup Busy /\ \A w \in Writer : writer[w].pc = "idle"
  BY DEF RoomInv
<1>1. CASE UNCHANGED vars
  BY <1>1 DEF vars, taskVars, mboxVars, txVars, RoomInv, At
<1>2. CASE Loop
  <2>0. UNCHANGED writer
    BY <1>2 DEF Loop
  <2>1. CASE PostOwn
    BY <2>0, <2>1, RoomPostOwn
  <2>2. CASE Fetch
    <3>1. /\ UNCHANGED <<mbox, missed, timers, todo, writer>>
          /\ todo = <<>> /\ pc = "loop" /\ pc' = "wait" /\ ~Pending(timers)
          /\ At = "loop" /\ At' = "wait"
      <4>1. timers # <<>> => timers[1].time > 0
        BY <2>2, HeadType DEF Fetch, TypeInv, List
      <4> QED
        BY <2>0, <2>2, <4>1 DEF Fetch, mboxVars, Pending, At, Taking
    <3>2. Coming(todo', At', timers') <= Coming(todo, At, timers)
      <4>1. Coming(todo', At', timers') = Coming(todo, At, timers)
        BY <3>1, PostsValue DEF Coming
      <4> QED
        BY <4>1, ComingType DEF RoomInv
    <3>3. todo \in Rests /\ ~Pending(timers')
      BY <3>1 DEF RoomInv
    <3> QED
      BY <1>0, <3>1, <3>2, <3>3, RoomFrame
  <2>3. CASE Expire
    <3>1. timers' = <<>> /\ pc' = RxTimeout /\ At' = RxTimeout
      BY <1>0, <2>3, ExpireShort DEF At, Taking, RxTimeout
    <3>2. /\ UNCHANGED <<mbox, missed, todo, writer>> /\ timers # <<>> /\ timers[1] = Head(timers)
          /\ (pc = "loop" /\ Head(timers).time = 0) \/ (pc = "wait" /\ mbox = <<>>)
          /\ todo = <<>>
      BY <2>0, <2>3, HeadType DEF Expire, Expired, mboxVars, TypeInv, List, RoomInv
    <3>3. todo \in Rests /\ Short(<<>>) /\ ~Pending(<<>>) /\ RxTimeout \in Busy /\ RxTimeout # "wait"
      BY DEF RoomInv, Short, Pending, Busy, RxTimeout
    <3>4. CASE pc = "loop" /\ Head(timers).time = 0
      <4>1. Pending(timers) /\ At = "loop"
        BY <3>2, <3>4 DEF Pending, At, Taking
      <4>2. Len(todo) \in Nat
        BY <3>3, RestsType
      <4>3. Coming(todo', At', timers') <= Coming(todo, At, timers)
        BY <3>1, <3>2, <3>3, <3>4, <4>1, <4>2, PostsValue DEF Coming
      <4> QED
        BY <1>0, <3>1, <3>2, <3>3, <4>3, RoomFrame
    <3>5. CASE pc = "wait" /\ mbox = <<>>
      <4>1. Len(mbox') = 0 /\ 1 .. 0 = {} /\ mbox' = <<>> /\ Len(<<>>) = 0 /\ <<>> # <<Start>>
        BY <3>2, <3>5
      <4>2. Coming(todo', At', timers') = 4
        BY <3>1, <3>2, <3>3, <4>1, PostsValue DEF Coming
      <4>3. Fits(mbox', Coming(todo', At', timers'))
        BY <4>1, <4>2 DEF Fits, NoWake
      <4>4. Paired(mbox', timers', todo')
        BY <3>1, <3>2, <4>1 DEF Paired
      <4>5. \A i \in 1 .. Len(mbox') : mbox'[i] \in {RxWake, Stop, Start}
        BY <4>1
      <4>6. missed' = {} /\ todo' \in Rests /\ \A w \in Writer : writer'[w].pc = "idle"
        BY <1>0, <3>2, <3>3 DEF RoomInv
      <4>7. Short(timers') /\ At' \in {"loop", "wait"} \cup Busy /\ pc' # "wait"
        BY <3>1, <3>3
      <4> QED
        BY <4>3, <4>4, <4>5, <4>6, <4>7 DEF RoomInv
    <3> QED
      BY <3>2, <3>4, <3>5
  <2>4. CASE ReceiveStatic \/ ReceiveCallback \/ ReceiveTimeout \/ ReceiveUntimeout
    BY <2>0, <2>4, RoomReceive
  <2>5. CASE ReadCtx \/ LoadCnt \/ StoreCnt
    <3>1. /\ UNCHANGED <<mbox, missed, timers, todo, writer>>
          /\ pc \in Taking /\ pc' \in Taking \cup {taken.of} /\ taken'.of = taken.of
      BY <2>0, <2>5, CountTypes DEF ReadCtx, LoadCnt, StoreCnt, OfTaken, Taking, TakenState
    <3>2. taken.of \in StaticMsg
      BY <3>1 DEF CountInv
    <3>3. At' = At /\ pc' # "wait"
      BY <3>1, <3>2, Names DEF At, Taking, SentData
    <3>4. todo \in Rests
      BY DEF RoomInv
    <3>5. Coming(todo', At', timers') <= Coming(todo, At, timers)
      <4>1. Coming(todo', At', timers') = Coming(todo, At, timers)
        BY <3>1, <3>3
      <4> QED
        BY <3>4, <4>1, ComingType
    <3> QED
      BY <1>0, <3>1, <3>3, <3>4, <3>5, RoomFrame
  <2> QED
    BY <1>2, <2>1, <2>2, <2>3, <2>4, <2>5 DEF Loop, WorkerLoop
<1>3. CASE UartRx \/ UartRxTimeout \/ ReadTail \/ Copy \/ Send \/ SendRefused \/ Sent \/ FlowOn
  BY <1>3, RoomFunction
<1>4. ~(FreeTxSentData \/ SockRecvTimeout \/ UartTx \/ SocketCreate)
  BY <1>0 DEF FreeTxSentData, SockRecvTimeout, UartTx, SocketCreate, AtFunction, Busy, At, Taking, SentData
<1>5. ASSUME NEW w \in Writer, WriterSteps(w)
      PROVE  FALSE
  BY <1>0, <1>5 DEF WriterSteps, WriterCheck, WriterCtx, WriterPost, WriterLoad, WriterStore, WriterStep
<1>6. (\A p \in Port : ~TxInterrupt(p) /\ ~TxCharsStart(p)) /\ \A f \in Callback : ~OtherTask(f)
  BY DEF ReceiverAlone, TxInterrupt, TxCharsStart, OtherTask
<1>7. CASE Time
  <2>1. UNCHANGED <<mbox, missed, pc, todo, writer>> /\ Tick /\ At' = At
    BY <1>7 DEF Time, Tick, mboxVars, txVars, At
  <2>2. /\ Short(timers') /\ (Pending(timers') <=> Pending(timers))
        /\ timers = <<>> => timers' = <<>>
    BY <1>0, <2>1, TickShort
  <2>3. todo \in Rests /\ (pc = "wait" => todo = <<>> /\ ~Pending(timers))
    BY DEF RoomInv
  <2>4. Coming(todo', At', timers') <= Coming(todo, At, timers)
    <3>1. Coming(todo', At', timers') = Coming(todo, At, timers)
      BY <2>1, <2>2 DEF Coming
    <3> QED
      BY <2>3, <3>1, ComingType
  <2> QED
    BY <1>0, <2>1, <2>2, <2>3, <2>4, RoomFrame
<1>8. ASSUME NEW n \in 0 .. RxMax, RxInterrupt(n)
      PROVE  RoomInv'
  BY <1>8, RoomInterrupt
<1> QED
  BY <1>1, <1>2, <1>3, <1>4, <1>5, <1>6, <1>7, <1>8 DEF Next, Worker, Functions, Writer

LEMMA RoomInit ==
  Init => RoomInv
<1> SUFFICES ASSUME Init
             PROVE  RoomInv
  OBVIOUS
<1>1. /\ mbox = <<>> /\ timers = <<>> /\ pc = "loop" /\ todo = <<>> /\ missed = {}
      /\ At = "loop" /\ \A w \in Writer : writer[w].pc = "idle"
  BY DEF Init, TaskInit, NoWriter, At, Taking
<1>2. Len(<<>>) = 0 /\ 1 .. 0 = {} /\ <<>> # <<Start>>
  OBVIOUS
<1>3. Short(timers) /\ ~Pending(timers) /\ todo \in Rests
  BY <1>1, <1>2 DEF Short, Pending, Rests
<1>4. Coming(todo, At, timers) = 0
  BY <1>1, <1>2, <1>3, PostsValue DEF Coming
<1>5. Fits(mbox, Coming(todo, At, timers))
  BY <1>1, <1>2, <1>4 DEF Fits, NoWake
<1>6. Paired(mbox, timers, todo)
  BY <1>1, <1>2 DEF Paired
<1> QED
  BY <1>1, <1>2, <1>3, <1>5, <1>6 DEF RoomInv

LEMMA SetupFixed ==
  ASSUME [Next]_vars
  PROVE  setup' = setup
<1>1. CASE UNCHANGED vars
  BY <1>1 DEF vars, taskVars
<1>2. CASE Loop
  BY <1>2 DEF Loop, WorkerLoop, PostOwn, Fetch, Expire, Receive,
              ReceiveStatic, ReceiveCallback, ReceiveTimeout, ReceiveUntimeout,
              ReadCtx, LoadCnt, StoreCnt, OfTaken
<1>3. CASE Functions
  BY <1>3 DEF Functions, UartRx, UartRxTimeout, ReadTail, Copy, Send, SendRefused, Sent, FlowOn, FreeTxSentData,
              SockRecvTimeout, UartTx, SocketCreate, AtFunction,
              WriterSteps, WriterCheck, WriterCtx, WriterPost, WriterLoad, WriterStore, WriterStep
<1>4. CASE Time \/ WriterSteps("task")
  BY <1>4 DEF Time, Tick,
              WriterSteps, WriterCheck, WriterCtx, WriterPost, WriterLoad, WriterStore, WriterStep
<1>5. ASSUME \/ \E n \in 0 .. RxMax : RxInterrupt(n)
             \/ \E p \in Port : TxInterrupt(p) \/ TxCharsStart(p)
             \/ \E f \in Callback : OtherTask(f)
      PROVE  setup' = setup
  BY <1>5 DEF RxInterrupt, OtherTask, TxInterrupt, TxCharsStart, taskVars
<1> QED
  BY <1>1, <1>2, <1>3, <1>4, <1>5 DEF Next, Worker

(* The mailbox never holds more than 18 messages of the worker to itself.  *)
LEMMA OwnMessages ==
  ASSUME TypeInv, setup.mboxSize > 18 => RoomInv
  PROVE  Cardinality({i \in DOMAIN mbox : mbox[i].of \in Handler}) <= 18
<1> DEFINE P == {i \in DOMAIN mbox : mbox[i].of \in Handler}
<1>1. /\ Len(mbox) \in Nat /\ DOMAIN mbox = 1 .. Len(mbox) /\ 1 \in Int /\ Len(mbox) <= setup.mboxSize
      /\ setup.mboxSize \in Nat
  BY Bounds DEF TypeInv
<1>2. IsFiniteSet(1 .. Len(mbox)) /\ Cardinality(1 .. Len(mbox)) = Len(mbox)
  <2> DEFINE n == Len(mbox)
  <2>1. n \in Nat /\ n \in Int /\ 1 \in Int
    BY <1>1
  <2> HIDE DEF n
  <2>2. IsFiniteSet(1 .. n) /\ Cardinality(1 .. n) = IF 1 > n THEN 0 ELSE n - 1 + 1
    BY <2>1, FS_Interval, Zenon
  <2>3. Cardinality(1 .. n) = n
    BY <2>1, <2>2
  <2> QED
    BY <2>2, <2>3 DEF n
<1>3. P \subseteq 1 .. Len(mbox)
  BY <1>1
<1>4. IsFiniteSet(P) /\ Cardinality(P) <= Len(mbox) /\ Cardinality(P) \in Nat
  <2> HIDE DEF P
  <2> QED
    BY <1>2, <1>3, FS_Subset, FS_CardinalityType
<1>5. CASE Len(mbox) <= 18
  BY <1>1, <1>4, <1>5
<1>6. CASE Len(mbox) > 18
  <2>1. RoomInv
    BY <1>1, <1>6
  <2>2. Fits(mbox, Coming(todo, At, timers)) /\ Coming(todo, At, timers) \in Nat
    BY <2>1, ComingType DEF RoomInv
  <2>3. ~NoWake(mbox)
    BY <1>1, <1>6, <2>2 DEF Fits
  <2>4. PICK w \in 1 .. Len(mbox) : mbox[w] = RxWake
    BY <2>3 DEF NoWake
  <2>5. Len(mbox) <= 19
    <3>1. Len(mbox) + Coming(todo, At, timers) <= 19
      BY <2>2, <2>4 DEF Fits
    <3> QED
      BY <1>1, <2>2, <3>1
  <2>6. w \notin P
    BY <2>4, Names DEF RxWake, Static, RxTimeout
  <2>7. P # 1 .. Len(mbox)
    BY <2>4, <2>6
  <2>8. Cardinality(P) < Len(mbox)
    <3> HIDE DEF P
    <3>1. Cardinality(P) # Len(mbox)
      BY <1>2, <1>3, <2>7, FS_Subset
    <3> QED
      BY <1>1, <1>4, <3>1
  <2> QED
    BY <1>1, <1>4, <2>5, <2>8
<1> QED
  BY <1>1, <1>5, <1>6

LEMMA RoomInvariance ==
  ASSUME Delay[RxTimeout] > 0
  PROVE  Spec /\ ReceiverAlone => [](IInv /\ (setup.mboxSize > 18 => RoomInv))
<1> DEFINE Inv == IInv /\ ReceiverAlone /\ (setup.mboxSize > 18 => RoomInv)
<1>1. Init /\ ReceiverAlone => Inv
  BY InitInv, RoomInit
<1>2. Inv /\ [Next]_vars => Inv'
  <2> SUFFICES ASSUME Inv, [Next]_vars
               PROVE  Inv'
    OBVIOUS
  <2>1. IInv' /\ setup' = setup
    BY NextInv, SetupFixed
  <2>2. ReceiverAlone'
    BY <2>1 DEF ReceiverAlone
  <2>3. ASSUME setup.mboxSize > 18
        PROVE  RoomInv'
    BY <2>3, RoomStep DEF IInv
  <2> QED
    BY <2>1, <2>2, <2>3
<1>3. Inv => IInv /\ (setup.mboxSize > 18 => RoomInv)
  OBVIOUS
<1> HIDE DEF Inv
<1> QED
  BY <1>1, <1>2, <1>3, PTL DEF Spec

(* As long as the worker serves the receiver alone, and whatever the sizes *)
(* of the mailbox and of the ring buffer, uart_rx, its timeout and the     *)
(* interrupt never have more than 18 messages of tls_wl_task_add_timeout   *)
(* and tls_wl_task_untimeout in the mailbox: twice the nine that one       *)
(* message to uart_rx can cause.                                           *)
THEOREM OwnMessagesAreFew ==
  ASSUME OwnMax >= 18, Delay[RxTimeout] > 0
  PROVE  Spec => []OwnRoom
<1>1. IInv /\ (setup.mboxSize > 18 => RoomInv) => OwnRoom
  <2> SUFFICES ASSUME TypeInv, setup.mboxSize > 18 => RoomInv
               PROVE  OwnRoom
    BY DEF IInv
  <2> DEFINE n == Cardinality({i \in DOMAIN mbox : mbox[i].of \in Handler})
  <2>1. n <= 18 /\ n \in Nat
    <3>1. /\ Len(mbox) \in Nat /\ 1 \in Int
          /\ {i \in DOMAIN mbox : mbox[i].of \in Handler} \subseteq 1 .. Len(mbox)
      BY DEF TypeInv
    <3>2. IsFiniteSet({i \in DOMAIN mbox : mbox[i].of \in Handler})
      BY <3>1, FS_Interval, FS_Subset
    <3> QED
      BY <3>2, OwnMessages, FS_CardinalityType
  <2>2. OwnMax \in Nat
    BY HostUartAssumption
  <2> HIDE DEF n
  <2>3. n <= OwnMax
    BY <2>1, <2>2
  <2> QED
    BY <2>3 DEF n, OwnRoom
<1>2. ~ReceiverAlone /\ [Next]_vars => ~ReceiverAlone'
  BY SetupFixed DEF ReceiverAlone
<1>3. ~ReceiverAlone => OwnRoom
  BY DEF OwnRoom
<1> QED
  BY <1>1, <1>2, <1>3, RoomInvariance, PTL DEF Spec

(* A mailbox with room for 19 messages then loses no wake-up, neither of   *)
(* the interrupt, whose posting the full mailbox would refuse, nor of the  *)
(* worker, which nobody but itself could free a place for.                 *)
THEOREM NoWakeUpIsMissed ==
  ASSUME Delay[RxTimeout] > 0
  PROVE  Spec /\ ReceiverAlone /\ setup.mboxSize > 18 => [](missed = {})
<1> DEFINE Large == setup.mboxSize > 18
<1>1. [Next]_vars /\ Large => Large'
  BY SetupFixed
<1>2. IInv /\ (setup.mboxSize > 18 => RoomInv) /\ Large => missed = {}
  BY DEF RoomInv
<1> QED
  BY <1>1, <1>2, RoomInvariance, PTL DEF Spec
=============================================================================

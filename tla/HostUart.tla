------------------------------ MODULE HostUart ------------------------------
(***************************************************************************)
(* The host UART in transparent mode on top of the worker task:            *)
(* UART1_IRQHandler puts what the host sends into a ring buffer and wakes  *)
(* the worker (wm_uart.c), which passes it on to a socket in pieces, or,   *)
(* when the host pauses, on a timeout (uart_rx, uart_rx_timeout_handler    *)
(* and uart_net_send in wm_uart_task.c).  The worker also frees the        *)
(* buffers that UART0 and UART1 have sent, for which the two share one     *)
(* static message, and runs the callbacks of other tasks.  Built without   *)
(* TLS_CONFIG_CMD_USE_RAW_SOCKET, it polls the sockets on a timeout of its *)
(* own (wm_cmdp_hostif.c).                                                 *)
(*                                                                         *)
(* Interrupts are one step each; the functions the worker runs and the     *)
(* task that writes to the UART are cut at every access to shared state.   *)
(* The ring buffer is its number of bytes: all the code looks at is the    *)
(* distance of head and tail.                                              *)
(***************************************************************************)
EXTENDS WlTask, FiniteSets

CONSTANTS
    BufSize,      \* TLS_UART_RX_BUF_SIZE
    SendSize,     \* UART_NET_SEND_DATA_SIZE
    CacheLimit,   \* RX_CACHE_LIMIT
    RxMax,        \* the most bytes the interrupt finds in the receive FIFO
    OwnMax        \* messages to itself the worker may have in its mailbox

ASSUME HostUartAssumption ==
    /\ {"uart_rx", "free_tx_sent_data"} = StaticMsg
    /\ {"uart_tx", "socket_create"} = Callback
    /\ {"uart1", "port0", "port1"} = Ctx
    /\ {"uart_rx_timeout", "sock_recv_timeout"} = Handler
    /\ BufSize \in Nat \ {0} /\ SendSize \in 1 .. BufSize - 2
    /\ CacheLimit \in Nat /\ 2 * CacheLimit <= SendSize /\ RxMax \in 1 .. CacheLimit
    /\ OwnMax \in Nat
    /\ \A s \in Setup : s.callbacks \subseteq Callback /\ s.maxCallback \in Nat
                        /\ s.sources \subseteq {"rx", "error", "port0", "port1"}
                        /\ s.window \in Nat /\ s.raw \in BOOLEAN /\ s.flow \subseteq BOOLEAN

VARIABLES
    flow,       \* hardware flow control is on: opts.flow_ctrl and fcStatus
    rxOn,       \* rxstatus
    ring,       \* CIRC_CNT of the receive buffer
    ns,         \* uart_net_send: count, buflen and where tail points in the buffer
    owed,       \* history: bytes received and neither sent nor dropped
    overrun,    \* history: the interrupt threw bytes away
    toFree,     \* the ports whose tx_msg_to_be_freed_list is not empty
    writer,     \* who is where in tls_uart_tx_chars_start, with which port and cnt read
    raced,      \* history: the messages with an update of cnt lost
    astray,     \* history: the ports whose last wake-up is not coming to them
    callbacks

uartVars == <<flow, rxOn, ring, ns, owed, overrun>>
txVars == <<toFree, writer, raced, astray>>
vars == <<taskVars, uartVars, txVars, callbacks>>

Port == {"port0", "port1"}
Writer == {"task", "worker"}
NoWriter == [pc |-> "idle", port |-> Null, cnt |-> 0]
Idle == [count |-> 0, buflen |-> 0, from |-> 0]
Space == BufSize - 1 - ring
Min2(a, b) == IF a < b THEN a ELSE b

TypeOK ==
    /\ TaskTypeOK
    /\ pc \in Taking \union {"loop", "wait", "tail", "net_send", "send", "sent", "flow", "writing"}
               \union StaticMsg \union Callback \union Handler
    /\ flow \in BOOLEAN /\ rxOn \in BOOLEAN /\ overrun \in BOOLEAN
    /\ ring \in 0 .. BufSize - 1 /\ owed \in 0 .. BufSize - 1
    /\ ns \in [count: 0 .. BufSize, buflen: 0 .. SendSize, from: 0 .. BufSize - 1]
    /\ toFree \subseteq Port /\ raced \subseteq StaticMsg /\ astray \subseteq Ctx \union {Null}
    /\ writer \in [Writer -> [pc: {"idle", "check", "ctx", "post", "load", "store"},
                              port: Port \union {Null}, cnt: 0 .. CntMod - 1]]
    /\ callbacks \in 0 .. setup.maxCallback

Init ==
    /\ TaskInit
    /\ flow \in setup.flow /\ rxOn = TRUE
    /\ ring = 0 /\ ns = Idle /\ owed = 0 /\ overrun = FALSE
    /\ toFree = {} /\ writer = [w \in Writer |-> NoWriter] /\ raced = {} /\ astray = {}
    /\ callbacks = 0

-----------------------------------------------------------------------------
(* Interrupts and other tasks.                                             *)

(* UART1_IRQHandler, receive part, with tls_uart1_task_rx_cb.  A buffer    *)
(* that is nearly full loses its oldest bytes.  With a receive error the   *)
(* bytes in the FIFO do not count.                                         *)
RxInterrupt(n) ==
    LET dropped == IF Space <= CacheLimit THEN CacheLimit ELSE 0 IN
    /\ (IF n > 0 THEN "rx" ELSE "error") \in setup.sources
    /\ (n > 0 => ring < setup.window) /\ ~overrun    \* bounds
    /\ rxOn
    /\ ring' = (ring - dropped + n) % BufSize
    /\ overrun' = (overrun \/ dropped > 0)
    /\ owed' = IF overrun' THEN 0 ELSE owed + n
    /\ ns' = IF pc \in {"net_send", "send", "sent"}
               THEN [ns EXCEPT !.from = (@ - dropped) % BufSize] ELSE ns
    /\ CallbackStatic("uart_rx", "uart1")
    /\ UNCHANGED <<setup, timers, pc, taken, todo, wait, flow, rxOn, txVars, callbacks>>

(* What becomes of a wake-up of port p.  The message that both ports share *)
(* calls tls_uart_free_tx_sent_data with the ctx it has when the worker    *)
(* reads it: a port that is refused because the message counts as queued,  *)
(* and one whose ctx is overwritten before it is read, may get nothing.    *)
SentData == "free_tx_sent_data"
Copies(m) == Cardinality({i \in DOMAIN mbox : mbox[i] = Static(m)})
Taken(m) == IF pc \in Taking /\ taken.of = m THEN 1 ELSE 0
Counting == {w \in Writer : writer[w].pc \in {"load", "store"}}
Unread == Copies(SentData) > 0 \/ (pc = "argu" /\ taken.of = SentData)
Served(p) ==
    \/ Unread /\ ctx[SentData] = p
    \/ pc \in {"load", "store", SentData} /\ taken.of = SentData /\ taken.argu = p
Refused(p) ==
    IF ~Served(p) /\ (Copies(SentData) + Taken(SentData) > 0 \/ Counting # {})
    THEN astray \union {p} ELSE astray
Redirected(p) == IF Unread THEN astray \union ({ctx[SentData]} \ {p}) ELSE astray

(* tls_uart_tx_chars: a message is sent to its end, uart_tx_sent_callback. *)
TxInterrupt(p) ==
    /\ p \in setup.sources
    /\ toFree' = toFree \union {p}
    /\ CallbackStatic(SentData, p)
    /\ astray' = CASE cnt[SentData] > 0 -> Refused(p)
                   [] Full              -> Redirected(p) \union {p}
                   [] OTHER             -> Redirected(p) \ {p}
    /\ UNCHANGED <<setup, timers, pc, taken, todo, wait, uartVars, writer, raced, callbacks>>

(* tls_uart_tx_chars_start, by a task that writes to the UART or by the    *)
(* worker itself in uart_tx: the message fits into the FIFO, and           *)
(* uart_tx_sent_callback is called outside of the critical section.  Its   *)
(* accesses to the message are steps of their own, cnt++ a load and a      *)
(* store.                                                                  *)
WriterStep(w, from, to) ==
    /\ writer[w].pc = from
    /\ writer' = [writer EXCEPT ![w] =
                    IF to = "idle" THEN NoWriter
                    ELSE [@ EXCEPT !.pc = to, !.cnt = IF to = "store" THEN cnt[SentData] ELSE 0]]
    /\ pc' = IF w = "worker" /\ to = "idle" THEN "loop" ELSE pc
    /\ UNCHANGED <<setup, faults, timers, taken, todo, wait, uartVars, toFree, callbacks>>

TxCharsStart(p) ==
    /\ p \in setup.sources
    /\ writer["task"].pc = "idle"
    /\ writer' = [writer EXCEPT !["task"] = [NoWriter EXCEPT !.pc = "check", !.port = p]]
    /\ toFree' = toFree \union {p}
    /\ UNCHANGED <<taskVars, uartVars, raced, astray, callbacks>>

WriterCheck(w) ==
    /\ \/ cnt[SentData] = 0 /\ WriterStep(w, "check", "ctx") /\ UNCHANGED astray
       \/ /\ cnt[SentData] > 0 /\ WriterStep(w, "check", "idle")
          /\ astray' = Refused(writer[w].port)
    /\ UNCHANGED <<mbox, cnt, ctx, missed, raced>>

WriterCtx(w) ==
    /\ WriterStep(w, "ctx", "post")
    /\ ctx' = [ctx EXCEPT ![SentData] = writer[w].port]
    /\ astray' = Redirected(writer[w].port)
    /\ UNCHANGED <<mbox, cnt, missed, raced>>

WriterPost(w) ==
    /\ \/ /\ ~Full /\ WriterStep(w, "post", "load")
          /\ mbox' = Append(mbox, Static(SentData))
          /\ missed' = missed \ {SentData}
          /\ astray' = IF ctx[SentData] = writer[w].port THEN astray \ {writer[w].port}
                       ELSE astray \union {writer[w].port}
       \/ /\ Full /\ WriterStep(w, "post", "idle")
          /\ missed' = missed \union {SentData}
          /\ astray' = astray \union {writer[w].port}
          /\ UNCHANGED mbox
    /\ UNCHANGED <<cnt, ctx, raced>>

WriterLoad(w) ==
    /\ WriterStep(w, "load", "store")
    /\ UNCHANGED <<mbox, cnt, ctx, missed, raced, astray>>

(* An update of cnt is lost when cnt changed after it was loaded.          *)
Lost(m, loaded) == IF loaded # cnt[m] THEN raced \union {m} ELSE raced

WriterStore(w) ==
    /\ WriterStep(w, "store", "idle")
    /\ cnt' = [cnt EXCEPT ![SentData] = (writer[w].cnt + 1) % CntMod]
    /\ raced' = Lost(SentData, writer[w].cnt)
    /\ UNCHANGED <<mbox, ctx, missed, astray>>

(* uart_send_tx_msg and the command server of wm_rmms.c.                   *)
OtherTask(f) ==
    /\ callbacks < setup.maxCallback /\ callbacks' = callbacks + 1
    /\ f \in setup.callbacks
    /\ PostCallback(f)
    /\ UNCHANGED <<setup, timers, pc, taken, todo, wait, uartVars, txVars>>

-----------------------------------------------------------------------------
(* The functions the worker runs.                                          *)

AtFunction(f) ==
    /\ pc = f /\ todo = <<>>
    /\ UNCHANGED <<setup, mboxVars, timers, taken, wait, callbacks>>

(* uart_rx, UART_TRANS_MODE: the bytes are counted, and after the message  *)
(* to the timeout list tail is read for uart_net_send.                     *)
AlwaysRestarted ==                                                   \* mutant
    /\ AtFunction("uart_rx")
    /\ todo' = Restart("uart_rx_timeout")
    /\ IF ring >= SendSize
       THEN ns' = [Idle EXCEPT !.count = ring] /\ pc' = "tail"
       ELSE ns' = ns /\ pc' = "loop"
    /\ UNCHANGED <<flow, rxOn, ring, owed, overrun, txVars>>
UartRx ==
    /\ AtFunction("uart_rx")
    /\ \/ /\ ring >= SendSize
          /\ todo' = <<Untimeout("uart_rx_timeout")>>
          /\ ns' = [Idle EXCEPT !.count = ring] /\ pc' = "tail"
       \/ /\ ring < SendSize
          /\ todo' = Restart("uart_rx_timeout")
          /\ ns' = ns /\ pc' = "loop"
    /\ UNCHANGED <<flow, rxOn, ring, owed, overrun, txVars>>

UartRxTimeout ==
    /\ AtFunction("uart_rx_timeout")
    /\ \/ ring > 0 /\ ns' = [Idle EXCEPT !.count = ring] /\ pc' = "tail"
       \/ ring = 0 /\ ns' = ns /\ pc' = "loop"
    /\ UNCHANGED <<todo, flow, rxOn, ring, owed, overrun, txVars>>

ReadTail ==
    /\ AtFunction("tail")
    /\ pc' = "net_send"
    /\ UNCHANGED <<todo, uartVars, txVars>>

(* uart_net_send: the next piece is copied out of the ring buffer.         *)
CountUnderflows ==                                                   \* mutant
    /\ AtFunction("net_send")
    /\ ns' = [ns EXCEPT !.buflen = Min2(ns.count, SendSize), !.count = @ - SendSize]
    /\ pc' = "send"
    /\ UNCHANGED <<todo, flow, rxOn, ring, owed, overrun, txVars>>
Copy ==
    /\ AtFunction("net_send")
    /\ ns' = [ns EXCEPT !.buflen = Min2(ns.count, SendSize), !.count = Monus(@, SendSize)]
    /\ pc' = "send"
    /\ UNCHANGED <<todo, flow, rxOn, ring, owed, overrun, txVars>>

(* tls_hostif_send_data: sent; or dropped, because there is no socket, the *)
(* socket fails, or it has no memory and flow control is off.  With flow   *)
(* control the worker sleeps ten ticks and tries again while ERR_MEM is    *)
(* the answer, which changes nothing.  (ERR_MEM is -1, which is all that   *)
(* send says of a failure in the build without raw sockets.)               *)
Send ==
    /\ AtFunction("send")
    /\ owed' = IF overrun THEN 0 ELSE owed - ns.buflen
    /\ pc' = "sent"
    /\ UNCHANGED <<todo, ns, flow, rxOn, ring, overrun, txVars>>

(* tls_set_uart_rx_status: only flow control lets the receiver be stopped. *)
RxStatus(enable) == enable \/ (rxOn /\ ~flow)

(* ERR_VAL, which only a raw socket answers: tls_set_uart_rx_status stops  *)
(* the receiver, if flow control is on, and the rest waits for the timeout. *)
NotTriedAgain ==                                                     \* mutant
    /\ AtFunction("send") /\ setup.raw
    /\ rxOn' = RxStatus(FALSE)
    /\ ns' = Idle /\ pc' = "loop"
    /\ UNCHANGED <<todo, flow, ring, owed, overrun, txVars>>
SendRefused ==
    /\ AtFunction("send") /\ setup.raw
    /\ rxOn' = RxStatus(FALSE)
    /\ todo' = Restart("uart_rx_timeout")
    /\ ns' = Idle /\ pc' = "loop"
    /\ UNCHANGED <<flow, ring, owed, overrun, txVars>>

(* The bytes leave the ring buffer, and what remains is sent or put off.   *)
TailNotRead ==                                                       \* mutant
    /\ AtFunction("sent")
    /\ ring' = (ring - ns.buflen) % BufSize
    /\ IF ns.count >= SendSize /\ ns.buflen # ns.count
       THEN pc' = "net_send" /\ todo' = <<>> /\ ns' = [ns EXCEPT !.from = (@ - ns.buflen) % BufSize]
       ELSE /\ pc' = "flow" /\ ns' = Idle
            /\ todo' = IF ns.count > 0 THEN Restart("uart_rx_timeout") ELSE <<>>
    /\ UNCHANGED <<flow, rxOn, owed, overrun, txVars>>
Sent ==
    /\ AtFunction("sent")
    /\ ring' = (ring - ns.buflen) % BufSize
    /\ IF ns.count >= SendSize /\ ns.buflen # ns.count
       THEN pc' = "net_send" /\ todo' = <<>> /\ ns' = [ns EXCEPT !.from = 0]
       ELSE /\ pc' = "flow" /\ ns' = Idle
            /\ todo' = IF ns.count > 0 THEN Restart("uart_rx_timeout") ELSE <<>>
    /\ UNCHANGED <<flow, rxOn, owed, overrun, txVars>>

(* Flow control: the receiver starts again when half the buffer is free.   *)
NeverSwitchedOn ==                                                   \* mutant
    /\ AtFunction("flow")
    /\ pc' = "loop"
    /\ todo' = IF flow /\ Space <= BufSize \div 2 THEN Restart("uart_rx_timeout") ELSE <<>>
    /\ UNCHANGED <<flow, rxOn, ring, ns, owed, overrun, txVars>>
FlowOn ==
    /\ AtFunction("flow")
    /\ pc' = "loop"
    /\ rxOn' = IF flow /\ Space > BufSize \div 2 THEN RxStatus(TRUE) ELSE rxOn
    /\ todo' = IF flow /\ Space <= BufSize \div 2 THEN Restart("uart_rx_timeout") ELSE <<>>
    /\ UNCHANGED <<flow, ring, ns, owed, overrun, txVars>>

(* tls_uart_free_tx_sent_data, run to the end of the list of the port it   *)
(* was called with.                                                        *)
FreeTxSentData ==
    /\ AtFunction(SentData)
    /\ toFree' = toFree \ {taken.argu} /\ pc' = "loop"
    /\ UNCHANGED <<todo, uartVars, writer, raced, astray>>

(* uart_tx: all of the message goes into the FIFO, or only a part, or it   *)
(* is dropped for lack of memory.                                          *)
UartTx ==
    /\ AtFunction("uart_tx")
    /\ \/ /\ \E p \in setup.sources \intersect Port :
                /\ writer' = [writer EXCEPT !["worker"] = [NoWriter EXCEPT !.pc = "check", !.port = p]]
                /\ toFree' = toFree \union {p}
          /\ pc' = "writing"
       \/ pc' = "loop" /\ UNCHANGED <<writer, toFree>>
    /\ UNCHANGED <<todo, uartVars, raced, astray>>

(* A command that creates a socket: a raw socket calls back, the others    *)
(* are polled.                                                             *)
SocketCreate ==
    /\ AtFunction("socket_create")
    /\ pc' = "loop" /\ todo' = IF setup.raw THEN <<>> ELSE Restart("sock_recv_timeout")
    /\ UNCHANGED <<uartVars, txVars>>

(* sock_recv_timeout_handler, in the build without raw sockets, polls them *)
(* and starts itself again.                                                *)
SockRecvTimeout ==
    /\ AtFunction("sock_recv_timeout")
    /\ pc' = "loop" /\ todo' = <<Timeout("sock_recv_timeout")>>
    /\ UNCHANGED <<uartVars, txVars>>

-----------------------------------------------------------------------------
Loop ==
    /\ WorkerLoop
    /\ raced' = IF pc = "store" THEN Lost(taken.of, taken.cnt) ELSE raced
    /\ UNCHANGED <<uartVars, toFree, writer, astray, callbacks>>

WriterSteps(w) == WriterCheck(w) \/ WriterCtx(w) \/ WriterPost(w) \/ WriterLoad(w) \/ WriterStore(w)

Functions ==
    \/ UartRx \/ UartRxTimeout \/ ReadTail \/ Copy \/ Send \/ SendRefused \/ Sent \/ FlowOn
    \/ FreeTxSentData \/ SockRecvTimeout \/ UartTx \/ SocketCreate
    \/ WriterSteps("worker")

Worker == Loop \/ Functions

Time == Tick /\ UNCHANGED <<uartVars, txVars, callbacks>>

Next ==
    \/ Worker \/ Time
    \/ \E p \in Port : TxInterrupt(p) \/ TxCharsStart(p)
    \/ WriterSteps("task")
    \/ \E n \in 0 .. RxMax : RxInterrupt(n)
    \/ \E f \in Callback : OtherTask(f)

Spec == Init /\ [][Next]_vars

(* The worker, the writing task and the clock run; the network does not    *)
(* refuse for ever.                                                        *)
FairSpec ==
    /\ Spec
    /\ WF_vars(Worker) /\ WF_vars(Time) /\ WF_vars(WriterSteps("task"))
    /\ SF_vars(Send)

-----------------------------------------------------------------------------
(* cnt, which tls_wl_task_callback_static refuses on, is the number of     *)
(* copies of the message in the mailbox and of the one the worker has      *)
(* taken and not counted down, less those that writers have posted and not *)
(* counted, modulo 256; until an update of it is lost, which cannot happen *)
(* to the message of the receiver.                                         *)
Uncounted(m) == IF m = SentData THEN Cardinality(Counting) ELSE 0
CountExact ==
    /\ "uart_rx" \notin raced
    /\ \A m \in StaticMsg \ raced :
          cnt[m] = (Copies(m) + Taken(m) - Uncounted(m)) % CntMod

(* The timeout h will be in the list when the worker has done all that is  *)
(* asked of it now: the last message about it sets it.                     *)
Armed(h) ==
    LET asked == mbox \o todo
        ops == {i \in DOMAIN asked : asked[i].of = h}
    IN  \/ ops = {} /\ \E i \in DOMAIN timers : timers[i].h = h
        \/ \E i \in ops : asked[i].type = "timeout" /\ \A j \in ops : j <= i

(* Bytes in the ring buffer, and a receiver that was stopped, have someone *)
(* who will see to them: a message to uart_rx, the timeout, or the worker  *)
(* in one of these functions, unless a wake-up was not posted.             *)
NothingStranded ==
    (ring > 0 \/ ~rxOn) /\ missed \intersect {"uart_rx", "uart_rx_timeout"} = {} =>
        \/ Copies("uart_rx") > 0
        \/ Taken("uart_rx") > 0
        \/ Armed("uart_rx_timeout")
        \/ pc \in {"uart_rx", "uart_rx_timeout", "tail", "net_send", "send", "sent", "flow"}

(* uart_net_send passes on every byte once and in the order of arrival:    *)
(* what it copies starts at the first byte not yet passed on, and what the *)
(* ring buffer holds is what is owed, whatever the interrupt adds in the   *)
(* meantime, until the interrupt throws bytes away.                        *)
EachByteOnce ==
    ~overrun =>
        /\ owed = ring - (IF pc = "sent" THEN ns.buflen ELSE 0)
        /\ pc = "send" => ns.from = 0 /\ ns.buflen \in 1 .. owed

(* The worker, which cannot wait for room in its own mailbox, has at most  *)
(* OwnMax messages to itself in it as long as it serves the receiver       *)
(* alone.  (Callbacks of others let uart_rx, and with it the messages that *)
(* restart the timeout, run ahead of the list without bound.)              *)
ReceiverAlone ==
    setup.callbacks = {} /\ setup.maxFault = 0 /\ setup.sources \intersect Port = {}
OwnRoom ==
    ReceiverAlone => Cardinality({i \in DOMAIN mbox : mbox[i].of \in Handler}) <= OwnMax

(* No timeout expires before its time, but for the rounding to ticks: less *)
(* than a tick for itself, and for each one that expired since it was set. *)
NotEarly == [][Expire => Head(timers).due < TickMs]_vars

(* As long as wake-ups are posted, bytes are passed on.  (Receive errors   *)
(* for ever, each within the delay of the last, would put off the timeout  *)
(* for ever.)                                                              *)
BytesFlow ==
    <>[][~RxInterrupt(0)]_vars => []<>(owed = 0 \/ pc = "sent" \/ missed # {})

(* A receiver that was stopped starts again.                               *)
RxResumes == ~rxOn ~> (rxOn \/ missed # {})

(* The sent buffers of a port are freed, unless its wake-up was refused    *)
(* for a full mailbox, went to the other port, or met a counter that is    *)
(* wrong since an update was lost.                                         *)
SentFreed ==
    \A p \in Port : p \in toFree ~> (p \notin toFree \/ p \in astray \/ SentData \in raced)

(* In the build that polls them: if the worker waits for a tick or more    *)
(* again and again, the sockets are polled: timeouts set before them do    *)
(* not put this one off.  (Waits in which no tick passes take nothing off  *)
(* the list, and under steady load there may be no other.)                 *)
SocketsPolled ==
    []<>(pc = "wait" /\ TicksElapsed > 0)
        => ((\E i \in DOMAIN timers : timers[i].h = "sock_recv_timeout")
               ~> (pc = "sock_recv_timeout" \/ "sock_recv_timeout" \in missed))
=============================================================================

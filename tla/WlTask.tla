------------------------------- MODULE WlTask -------------------------------
(***************************************************************************)
(* The worker task of the SDK (Platform/Common/task): a thread that takes  *)
(* messages from a bounded mailbox, calls the functions they name, and     *)
(* calls the handlers of a list of timeouts while it waits.                *)
(*                                                                         *)
(* This module has the mailbox, the posting functions, the timeout list    *)
(* and the loop of task_thread.  The functions the worker calls belong to  *)
(* a client, which extends this module: a message or timeout of f puts f   *)
(* in pc, and the client's steps for f lead pc back to "loop".             *)
(*                                                                         *)
(* Nobody but the worker takes messages out of the mailbox, so that        *)
(* tls_mbox_post from the worker itself, whose ten attempts are five ticks *)
(* apart, finds a full mailbox full ten times.                             *)
(***************************************************************************)
EXTENDS Integers, Sequences

CONSTANTS
    StaticMsg,    \* the messages of wl_msg in use
    Callback,     \* functions given to tls_wl_task_callback
    Ctx,          \* the contexts given to tls_wl_task_callback_static
    Handler,      \* timeout handlers with their arguments
    Delay,        \* the milliseconds a client gives for a handler
    TickMs,       \* milliseconds per tick, 1000 / HZ
    TickMod,      \* 2^32, where the tick counter wraps
    CntMod,       \* 2^8, cnt of a static message is a byte
    Setup         \* the settings to consider: mbox_size of the task, and the
                  \* bounds maxFault, on the allocations that fail, and those
                  \* of the client

ASSUME WlTaskAssumption ==
    /\ TickMs \in Nat \ {0} /\ TickMod \in Nat \ {0} /\ CntMod \in Nat /\ CntMod > 3
    /\ \A s \in Setup : s.mboxSize \in Nat \ {0} /\ s.maxFault \in Nat
    /\ Delay \in [Handler -> Nat]
    /\ \A h \in Handler : Delay[h] \div TickMs < TickMod

VARIABLES
    setup,     \* the setting of this behaviour
    mbox,      \* the queue
    cnt,       \* cbs.cnt of the static messages
    ctx,       \* cbs.ctx of the static messages
    timers,    \* the list next_timeout, each entry relative to the one before
    pc,        \* where the worker is
    taken,     \* the static message taken, argu, and the cnt the worker has read
    todo,      \* what the running function still has to post before it goes on
    wait,      \* tick_start, tls_os_get_time now, and ticks left in tls_os_queue_receive
    missed,    \* history: whose last wake-up was not posted
    faults

mboxVars == <<mbox, cnt, ctx, missed, faults>>
taskVars == <<setup, mboxVars, timers, pc, taken, todo, wait>>

Forever == -1    \* portMAX_DELAY
NoWait == [start |-> 0, now |-> 0, left |-> Forever]
Null == "null"
NotTaken == [of |-> Null, argu |-> Null, cnt |-> 0]

Message == [type: {"static"}, of: StaticMsg] \union [type: {"callback"}, of: Callback]
             \union [type: {"timeout", "untimeout"}, of: Handler]
Static(m) == [type |-> "static", of |-> m]
Timeout(h) == [type |-> "timeout", of |-> h]
Untimeout(h) == [type |-> "untimeout", of |-> h]

RestartReversed(h) == <<Timeout(h), Untimeout(h)>>                   \* mutant
Restart(h) == <<Untimeout(h), Timeout(h)>>

TaskTypeOK ==
    /\ setup \in Setup
    /\ mbox \in Seq(Message) /\ Len(mbox) <= setup.mboxSize
    /\ cnt \in [StaticMsg -> 0 .. CntMod - 1] /\ ctx \in [StaticMsg -> Ctx \union {Null}]
    /\ taken \in [of: StaticMsg \union {Null}, argu: Ctx \union {Null}, cnt: 0 .. CntMod - 1]
    /\ timers \in Seq([h: Handler, time: Nat, due: Nat])
    /\ todo \in Seq(Message)
    /\ wait \in [start: 0 .. TickMod - 1, now: 0 .. TickMod - 1, left: Int]
    /\ missed \subseteq StaticMsg \union Handler
    /\ faults \in 0 .. setup.maxFault

TaskInit ==
    /\ setup \in Setup
    /\ mbox = <<>> /\ timers = <<>>
    /\ cnt = [m \in StaticMsg |-> 0] /\ ctx = [m \in StaticMsg |-> Null]
    /\ pc = "loop" /\ taken = NotTaken /\ todo = <<>> /\ wait = NoWait
    /\ missed = {} /\ faults = 0

-----------------------------------------------------------------------------
(* Posting.                                                                *)

Full == Len(mbox) >= setup.mboxSize

(* tls_wl_task_callback_static called by an interrupt: the worker does not *)
(* run before the interrupt returns, so the steps are one.  A refusal for  *)
(* a full mailbox leaves the caller without a wake-up; the refusal of a    *)
(* message that is counted as queued does not.                             *)
CountedWhenFull(m, c) ==                                             \* mutant
    IF cnt[m] > 0
    THEN UNCHANGED mboxVars
    ELSE /\ ctx' = [ctx EXCEPT ![m] = c]
         /\ mbox' = IF Full THEN mbox ELSE Append(mbox, Static(m))
         /\ cnt' = [cnt EXCEPT ![m] = (@ + 1) % CntMod]
         /\ missed' = IF Full THEN missed \union {m} ELSE missed \ {m}
         /\ UNCHANGED faults
CallbackStatic(m, c) ==
    IF cnt[m] > 0
    THEN UNCHANGED mboxVars
    ELSE /\ ctx' = [ctx EXCEPT ![m] = c]
         /\ mbox' = IF Full THEN mbox ELSE Append(mbox, Static(m))
         /\ cnt' = IF Full THEN cnt ELSE [cnt EXCEPT ![m] = (@ + 1) % CntMod]
         /\ missed' = IF Full THEN missed \union {m} ELSE missed \ {m}
         /\ UNCHANGED faults

(* tls_wl_task_callback without block, by another task.  An error is       *)
(* reported to the caller, who frees what he wanted to pass.               *)
CallbackFails == Full /\ UNCHANGED mboxVars
CallbackNoMem == faults < setup.maxFault /\ faults' = faults + 1 /\ UNCHANGED <<mbox, cnt, ctx, missed>>
PostCallback(f) ==
    \/ /\ ~Full
       /\ mbox' = Append(mbox, [type |-> "callback", of |-> f])
       /\ UNCHANGED <<cnt, ctx, missed, faults>>
    \/ CallbackFails
    \/ CallbackNoMem

(* tls_wl_task_add_timeout and tls_wl_task_untimeout as the functions the  *)
(* worker runs call them.  Their callers look at no result, and a message  *)
(* that tls_mbox_post gives up is not freed.                               *)
Unposted == missed' = missed \union (IF Head(todo).type = "timeout" THEN {Head(todo).of} ELSE {})
Posted == missed' = missed \ (IF Head(todo).type = "timeout" THEN {Head(todo).of} ELSE {})

PostOwn ==
    /\ todo # <<>>
    /\ todo' = Tail(todo)
    /\ \/ ~Full /\ mbox' = Append(mbox, Head(todo)) /\ Posted /\ UNCHANGED faults
       \/ Full /\ Unposted /\ UNCHANGED <<mbox, faults>>
       \/ faults < setup.maxFault /\ faults' = faults + 1 /\ Unposted /\ UNCHANGED mbox
    /\ UNCHANGED <<setup, cnt, ctx, timers, pc, taken, wait>>

-----------------------------------------------------------------------------
(* The timeout list.  due is a history variable: the milliseconds that     *)
(* must still pass before the timeout may expire.                          *)

Monus(a, b) == IF a > b THEN a - b ELSE 0

(* Milliseconds from now to the expiry of entry i, as the list has it.     *)
Times(list) ==
    LET S[j \in 0 .. Len(list)] == IF j = 0 THEN 0 ELSE S[j - 1] + list[j].time IN S
TimeTo(list, i) == Times(list)[i]

Less(e, ms) == [e EXCEPT !.time = @ - ms]
More(e, ms) == [e EXCEPT !.time = @ + ms]

(* tls_timeout_p: behind every entry that does not expire later.           *)
TimeoutP(list, h) ==
    LET ms == Delay[h]
        before == {i \in 0 .. Len(list) : TimeTo(list, i) <= ms}
        k == CHOOSE i \in before : \A j \in before : j <= i
        new == [h |-> h, time |-> ms - TimeTo(list, k), due |-> ms]
    IN [i \in 1 .. Len(list) + 1 |->
          CASE i <= k     -> list[i]
            [] i = k + 1  -> new
            [] i = k + 2  -> Less(list[i - 1], new.time)
            [] OTHER      -> list[i - 1]]

(* tls_untimeout_p: the first entry of h, its time added to the next.      *)
NotAddedBack(list, h) ==                                             \* mutant
    SelectSeq(list, LAMBDA e : e.h # h)
UntimeoutP(list, h) ==
    LET mine == {i \in DOMAIN list : list[i].h = h}
        k == CHOOSE i \in mine : \A j \in mine : i <= j
    IN IF mine = {} THEN list
       ELSE [i \in 1 .. Len(list) - 1 |->
               CASE i < k    -> list[i]
                 [] i = k    -> More(list[i + 1], list[k].time)
                 [] OTHER    -> list[i + 1]]

-----------------------------------------------------------------------------
(* The loop of task_thread with tls_timeouts_mbox_fetch_p.                 *)

(* tls_arch_mbox_fetch: milliseconds to ticks, but not to none.            *)
InTimeout(ms) == IF ms \div TickMs = 0 THEN 1 ELSE ms \div TickMs

(* tls_arch_mbox_fetch: where the counter wrapped, one tick is forgotten.  *)
TicksElapsed ==
    IF wait.now >= wait.start THEN wait.now - wait.start
    ELSE TickMod - 1 - wait.start + wait.now

(* The counter is read around a wait that may time out and nowhere else;   *)
(* the time between two waits is arbitrary, and so is the counter then.    *)
Fetch ==
    /\ pc = "loop" /\ todo = <<>>
    /\ pc' = "wait" /\ taken' = NotTaken
    /\ \/ timers = <<>> /\ wait' = NoWait
       \/ /\ timers # <<>>
          /\ Head(timers).time > 0
          /\ \E t \in 0 .. TickMod - 1 :
                wait' = [start |-> t, now |-> t, left |-> InTimeout(Head(timers).time)]
    /\ UNCHANGED <<setup, mboxVars, timers, todo>>

(* The first timeout has no time left, or no message came in its time.     *)
(* Rounding to ticks may take up to TickMs - 1 milliseconds from the       *)
(* timeouts behind.                                                        *)
Expired ==
    /\ timers # <<>>
    /\ \/ pc = "loop" /\ todo = <<>> /\ Head(timers).time = 0
       \/ pc = "wait" /\ wait.left = 0 /\ mbox = <<>>
Expire ==
    /\ Expired
    /\ pc' = Head(timers).h
    /\ timers' = [i \in 1 .. Len(timers) - 1 |->
                    [timers[i + 1] EXCEPT !.due = Monus(@, TickMs - 1)]]
    /\ wait' = NoWait
    /\ UNCHANGED <<setup, mboxVars, taken, todo>>

(* The time waited is taken off the first timeout.                         *)
NothingWaited == timers                                              \* mutant
Waited ==
    IF timers = <<>> THEN timers
    ELSE [timers EXCEPT ![1].time = Monus(@, TicksElapsed * TickMs)]

Receive ==
    /\ pc = "wait" /\ mbox # <<>>
    /\ mbox' = Tail(mbox)
    /\ wait' = NoWait
    /\ UNCHANGED <<setup, ctx, todo>>

(* TASK_MSG_CALLBACK_STATIC: the message is not the worker's alone.  Its   *)
(* ctx is read and its cnt counted down, which is a load and a store,      *)
(* before the function is called.                                          *)
ReceiveStatic ==
    /\ Receive /\ Head(mbox).type = "static"
    /\ timers' = Waited
    /\ taken' = [NotTaken EXCEPT !.of = Head(mbox).of]
    /\ pc' = "argu"
    /\ UNCHANGED <<cnt, missed, faults>>

Taking == {"argu", "load", "store"}
OfTaken(from, to) ==
    /\ pc = from /\ pc' = to
    /\ UNCHANGED <<setup, mbox, ctx, missed, faults, timers, todo, wait>>

ReadCtx ==
    /\ OfTaken("argu", "load")
    /\ taken' = [taken EXCEPT !.argu = ctx[taken.of]]
    /\ UNCHANGED cnt

LoadCnt ==
    /\ OfTaken("load", "store")
    /\ taken' = [taken EXCEPT !.cnt = cnt[taken.of]]
    /\ UNCHANGED cnt

NotCountedDown ==                                                    \* mutant
    /\ OfTaken("store", taken.of)
    /\ taken' = [taken EXCEPT !.cnt = 0]
    /\ UNCHANGED cnt
StoreCnt ==
    /\ OfTaken("store", taken.of)
    /\ cnt' = [cnt EXCEPT ![taken.of] = (taken.cnt - 1) % CntMod]
    /\ taken' = [taken EXCEPT !.cnt = 0]

ReceiveCallback ==
    /\ Receive /\ Head(mbox).type = "callback"
    /\ timers' = Waited
    /\ pc' = Head(mbox).of
    /\ UNCHANGED <<cnt, taken, missed, faults>>

(* TASK_MSG_TIMEOUT; without memory for the entry the timeout is forgotten *)
ReceiveTimeout ==
    /\ Receive /\ Head(mbox).type = "timeout"
    /\ \/ timers' = TimeoutP(Waited, Head(mbox).of) /\ UNCHANGED <<missed, faults>>
       \/ /\ faults < setup.maxFault /\ faults' = faults + 1
          /\ timers' = Waited
          /\ missed' = missed \union {Head(mbox).of}
    /\ pc' = "loop"
    /\ UNCHANGED <<cnt, taken>>

ReceiveUntimeout ==
    /\ Receive /\ Head(mbox).type = "untimeout"
    /\ timers' = UntimeoutP(Waited, Head(mbox).of)
    /\ pc' = "loop"
    /\ UNCHANGED <<cnt, taken, missed, faults>>

WorkerLoop ==
    \/ PostOwn \/ Fetch \/ Expire
    \/ ReceiveStatic \/ ReadCtx \/ LoadCnt \/ StoreCnt
    \/ ReceiveCallback \/ ReceiveTimeout \/ ReceiveUntimeout

(* A tick of the system.  One wait takes less than 2^32 ticks, and the     *)
(* worker, once it can run, does so within that time.                      *)
Tick ==
    /\ timers' = [i \in DOMAIN timers |-> [timers[i] EXCEPT !.due = Monus(@, TickMs)]]
    /\ \/ wait.left = Forever /\ UNCHANGED wait
       \/ /\ wait.left # Forever
          /\ (wait.now + 1) % TickMod # wait.start
          /\ wait' = [wait EXCEPT !.now = (@ + 1) % TickMod, !.left = Monus(@, 1)]
    /\ UNCHANGED <<setup, mboxVars, pc, taken, todo>>
=============================================================================

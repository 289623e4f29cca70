-------------------------------- MODULE FwUp --------------------------------
(***************************************************************************)
(* Firmware update (Platform/Common/fwup/wm_fwup.c) over the streaming     *)
(* flash writer: update sources open a session with tls_fwup_enter, hand   *)
(* in the image file piece by piece with the blocking                      *)
(* tls_fwup_request_sync and close with tls_fwup_exit; the fwup task takes *)
(* the requests from a list, writes the payload, verifies it, writes the   *)
(* update header and resets the chip.  The second boot loader (external)   *)
(* installs the image of a header newer than the running one.              *)
(*                                                                         *)
(* Sources: the TCP and HTTP updaters (Src/App/OTA), the web server, and   *)
(* the host interface, which works on whatever session is open.            *)
(***************************************************************************)
EXTENDS FastWrite, Sequences

CONSTANTS
    Socket,       \* socket_fwup_recv, also used by http_fwup
    Web,          \* the upload page of the web server
    Host,         \* UPDM and the data blocks on UART or HSPI
    Image,        \* image files
    Files,        \* those each source may send
    PayloadLen,   \* cells of payload of each image, booter.upd_img_len
    Base,         \* booter.upd_img_addr
    HeaderLen,    \* sizeof(T_BOOTER) in cells
    UserStart,    \* USER_ADDR_START, the end of the update area
    None,         \* no request, no image
    QueueSize,    \* FWUP_MSG_QUEUE_SIZE
    Chunk,        \* bound: cells a request may have
    MaxSession,   \* bound: number of sessions
    MaxReboot,    \* bound: number of power losses
    MaxFault      \* bound: number of failed allocations

Client == Socket \cup Web \cup Host
FileLen(i) == HeaderLen + PayloadLen[i]

ASSUME FwUpAssumption ==
    /\ None \notin Client \cup Image
    /\ Socket \cap (Web \cup Host) = {} /\ Web \cap Host = {}
    /\ Files \in [Client -> SUBSET Image]
    /\ PayloadLen \in [Image -> Nat \ {0}]
    /\ HeaderLen \in Nat \ {0} /\ Chunk \subseteq Nat \ {0}
    /\ QueueSize \in Nat \ {0}
    /\ Base \in Addr /\ UserStart \in Addr /\ SectorOf(Base) > 0
    /\ \A i \in Image : Base + PayloadLen[i] <= UserStart

VARIABLES
    hdr,        \* the header at CODE_UPD_HEADER_ADDR
    runNo,      \* upd_no of the image that runs
    fw,         \* *fwup, apart from the list
    wait,       \* fwup->wait_list: the clients whose request is in it
    queue,      \* messages in fwup_msg_queue
    spc,        \* where the fwup task is
    cur, temp,  \* its loop variables
    booter,     \* its copy of the image header
    reg,        \* a length or address loaded from *fwup and not yet used
    flags,      \* current_state, loaded and changed but not yet stored
    crc,        \* what the verification has read so far
    mode,       \* the host's update mode, tls_get_fwup_mode()
    cpc, cl, req,  \* where each client is, its variables, its request
    stray,      \* history: a session was opened or closed between the store of
                \* program_base and that of total_len, or during a verification
    silent,     \* history: the header was numbered or written without memory
    sessions, reboots, faults

fwVars == <<fw, wait, queue>>
loopVars == <<cur, temp>>
workVars == <<reg, flags, crc>>
taskVars == <<spc, loopVars, booter, workVars>>
clientVars == <<mode, cpc, cl>>
histVars == <<stray, silent>>
boundVars == <<sessions, reboots, faults>>
vars == <<flashVars, hdr, runNo, fwVars, taskVars, clientVars, req, histVars, boundVars>>

Flag == {"BUSY", "COMPLETE", "IO", "MEM", "CRC"}
Error == {"IO", "MEM", "CRC"}
ReqStatus == {"none", "IDLE", "BUSY", "SUCCESS", "FIO", "FMEM", "FCRC", "FCOMPLETE"}

NoSession == [busy |-> FALSE, sid |-> 0, state |-> {}, received |-> 0, total |-> 0,
              updated |-> 0, base |-> 0, offset |-> 0]
(* sid: the client's session; img, pos: the file it sends and how far it   *)
(* is; ok: every piece was answered OK; clean: no other source has taken   *)
(* part in the session.                                                    *)
NewClient == [sid |-> 0, img |-> None, pos |-> 0, ok |-> TRUE, clean |-> TRUE]
(* next: the file position the source goes on from.                        *)
NoRequest == [sid |-> 0, img |-> None, from |-> 0, len |-> 0, next |-> 0,
              status |-> "none", done |-> FALSE]
BadHeader == [img |-> None, no |-> 0]
(* off: the blocks read; ok: they are those of the image booter announces. *)
NoCrc == [off |-> 0, ok |-> TRUE]

Init ==
    /\ FlashInit
    /\ hdr = BadHeader /\ runNo = 0
    /\ fw = NoSession /\ wait = <<>> /\ queue = 0
    /\ spc = "recv" /\ cur = None /\ temp = None /\ booter = BadHeader
    /\ reg = 0 /\ flags = {} /\ crc = NoCrc
    /\ mode = FALSE
    /\ cpc = [c \in Client |-> "idle"]
    /\ cl = [c \in Client |-> NewClient]
    /\ req = [c \in Client |-> NoRequest]
    /\ stray = FALSE /\ silent = FALSE
    /\ sessions = 0 /\ reboots = 0 /\ faults = 0

Goto(c, l) == cpc' = [cpc EXCEPT ![c] = l]
SGoto(l) == spc' = l

-----------------------------------------------------------------------------
(* tls_fwup_enter                                                          *)

(* busy is tested before the critical section.  A refused source gets      *)
(* session 0: the socket gives up, the web page goes on with it, the host  *)
(* never looks at it.                                                      *)
EnterCheck(c, i) ==
    /\ cpc[c] = "idle" /\ (fw.busy \/ sessions < MaxSession)
    /\ c \in Host => ~mode
    /\ mode' = IF c \in Host THEN TRUE ELSE mode
    /\ cl' = [cl EXCEPT ![c] = [NewClient EXCEPT !.img = i, !.clean = ~fw.busy]]
    /\ Goto(c, IF ~fw.busy THEN "enter" ELSE IF c \in Socket THEN "idle" ELSE "send")
    /\ UNCHANGED <<flashVars, hdr, runNo, fwVars, taskVars, req, histVars, boundVars>>

(* A critical section of a source falls between the two stores that say    *)
(* where the image goes and how long it is, or between two reads of the    *)
(* base by the verification.                                               *)
Between == spc = "total" \/ (spc = "verify" /\ reg > 0)

(* The result of tls_fls_fast_write_init is ignored.                       *)
EnterSet(c) ==
    /\ cpc[c] = "enter"
    /\ sessions' = sessions + 1
    /\ fw' = [NoSession EXCEPT !.busy = TRUE, !.sid = sessions + 1]
    /\ \/ FastInit /\ UNCHANGED faults
       \/ FastInitNoMem /\ faults < MaxFault /\ faults' = faults + 1
    /\ cl' = [d \in Client |->
                IF d = c THEN [cl[c] EXCEPT !.sid = sessions + 1,
                                            !.clean = \A o \in Client \ {c} : cpc[o] = "idle"]
                ELSE [cl[d] EXCEPT !.clean = FALSE]]
    /\ Goto(c, "send")
    /\ stray' = (stray \/ Between)
    /\ UNCHANGED <<hdr, runNo, wait, queue, taskVars, mode, req, silent, reboots>>

-----------------------------------------------------------------------------
(* tls_fwup_request_sync and tls_fwup_request_async                        *)

(* The session a source names: the host asks for the current one.          *)
Names(c) == IF c \in Host THEN fw.sid ELSE cl[c].sid

(* What the source does with the result of a piece that ends at pos.       *)
Answered(c, pos, ok) ==
    /\ cl' = [cl EXCEPT ![c].pos = pos, ![c].ok = @ /\ ok]
    /\ req' = [req EXCEPT ![c] = NoRequest]
    /\ Goto(c, IF pos < FileLen(cl[c].img) /\ (c \in Socket => ok) THEN "send"
               ELSE IF c \in Socket THEN "exit" ELSE "idle")

(* tls_fwup_request_sync up to the call of tls_fwup_request_async.         *)
Send(c, n) ==
    /\ cpc[c] = "send"
    /\ n <= FileLen(cl[c].img) - cl[c].pos
    /\ c \in Host => fw.sid # 0
    /\ \/ /\ Names(c) = fw.sid
          /\ req' = [req EXCEPT ![c] = [sid |-> fw.sid, img |-> cl[c].img,
                       from |-> cl[c].pos, len |-> n, next |-> cl[c].pos + n,
                       status |-> "none", done |-> FALSE]]
          /\ cl' = [d \in Client |-> IF d = c THEN cl[c] ELSE [cl[d] EXCEPT !.clean = FALSE]]
          /\ Goto(c, "append")
          /\ UNCHANGED faults
       \/ /\ Names(c) # fw.sid
          /\ Answered(c, cl[c].pos + n, FALSE)
          /\ UNCHANGED faults
       \/ /\ Names(c) = fw.sid /\ faults < MaxFault   \* tls_os_sem_create
          /\ faults' = faults + 1
          /\ Answered(c, cl[c].pos + n, FALSE)
    /\ UNCHANGED <<flashVars, hdr, runNo, fwVars, taskVars, mode, histVars, sessions, reboots>>

(* The session is checked again; request.status is not initialised when    *)
(* that fails, and the result is whatever the stack held.  Otherwise the   *)
(* request is appended under list_lock, and the task is only woken when    *)
(* the list was empty.                                                     *)
WakeNever(c) == "wait"                                               \* mutant
WakeOf(c) == IF wait = <<>> THEN "post" ELSE "wait"

AppendRequest(c) ==
    /\ cpc[c] = "append"
    /\ \/ /\ req[c].sid = fw.sid
          /\ wait' = Append(wait, c)
          /\ req' = [req EXCEPT ![c].status = "IDLE"]
          /\ Goto(c, WakeOf(c))
          /\ UNCHANGED cl
       \/ /\ req[c].sid # fw.sid
          /\ \E ok \in BOOLEAN : Answered(c, req[c].next, ok)
          /\ UNCHANGED wait
    /\ UNCHANGED <<flashVars, hdr, runNo, fw, queue, taskVars, mode, histVars, boundVars>>

(* tls_os_queue_send; a full queue drops the message.                      *)
PostMessage(c) ==
    /\ cpc[c] = "post"
    /\ queue' = Min({queue + 1, QueueSize})
    /\ Goto(c, "wait")
    /\ UNCHANGED <<flashVars, hdr, runNo, fw, wait, taskVars, mode, cl, req, histVars, boundVars>>

TakeAnswer(c) ==
    /\ cpc[c] = "wait" /\ req[c].done
    /\ Answered(c, req[c].next, req[c].status = "SUCCESS")
    /\ UNCHANGED <<flashVars, hdr, runNo, fwVars, taskVars, mode, histVars, boundVars>>

-----------------------------------------------------------------------------
(* tls_fwup_exit: the checks, then the critical section.  The flash writer *)
(* is left as it is.                                                       *)

ExitCheck(c) ==
    /\ \/ c \in Socket /\ cpc[c] = "exit"
       \/ c \in Host /\ cpc[c] \in {"idle", "send"} /\ mode
    /\ mode' = IF c \in Host THEN FALSE ELSE mode
    /\ Goto(c, IF fw.busy /\ Names(c) = fw.sid /\ "BUSY" \notin fw.state
               THEN "exiting" ELSE "idle")
    /\ UNCHANGED <<flashVars, hdr, runNo, fwVars, taskVars, cl, req, histVars, boundVars>>

ExitSet(c) ==
    /\ cpc[c] = "exiting"
    /\ fw' = NoSession
    /\ cl' = [d \in Client |-> IF d = c THEN NewClient ELSE [cl[d] EXCEPT !.clean = FALSE]]
    /\ Goto(c, "idle")
    /\ stray' = (stray \/ Between)
    /\ UNCHANGED <<flashVars, hdr, runNo, wait, queue, taskVars, mode, req, silent, boundVars>>

ClientStep(c) ==
    \/ EnterSet(c) \/ AppendRequest(c) \/ PostMessage(c) \/ TakeAnswer(c) \/ ExitSet(c)
ClientCall(c) ==
    \/ \E i \in Files[c] : EnterCheck(c, i)
    \/ \E n \in Chunk : Send(c, n)
    \/ ExitCheck(c)

-----------------------------------------------------------------------------
(* fwup_scheduler.  Nothing protects *fwup against the critical sections   *)
(* of tls_fwup_enter and tls_fwup_exit: every access of the task that they *)
(* could fall between is a step of its own, and "x += n" is a load into    *)
(* reg (or flags) and a later store.                                       *)

Place(c) == CHOOSE k \in 1 .. Len(wait) : wait[k] = c
Successor(c) == IF Place(c) < Len(wait) THEN wait[Place(c) + 1] ELSE None
Unlinked(c) == [k \in 1 .. Len(wait) - 1 |-> IF k < Place(c) THEN wait[k] ELSE wait[k + 1]]

(* What a step of the task at work on a request leaves alone.              *)
TaskFrame == UNCHANGED <<runNo, wait, queue, loopVars, clientVars, sessions, reboots, stray>>

Receive ==
    /\ spc = "recv" /\ queue > 0
    /\ queue' = queue - 1
    /\ IF wait = <<>>
       THEN SGoto("loop") /\ UNCHANGED flags
       ELSE SGoto("busy") /\ flags' = fw.state \cup {"BUSY"}
    /\ UNCHANGED <<flashVars, hdr, runNo, fw, wait, loopVars, booter, reg, crc,
                   clientVars, req, histVars, boundVars>>

SetBusy ==
    /\ spc = "busy"
    /\ fw' = [fw EXCEPT !.state = flags]
    /\ SGoto("loop")
    /\ TaskFrame
    /\ UNCHANGED <<flashVars, hdr, booter, workVars, req, silent, faults>>

(* dl_list_for_each_safe fetches the next request before the current one   *)
(* is worked on.                                                           *)
FirstRequest ==
    /\ spc = "loop"
    /\ IF wait = <<>>
       THEN SGoto("recv") /\ UNCHANGED loopVars
       ELSE /\ cur' = Head(wait) /\ temp' = Successor(Head(wait))
            /\ SGoto("begin")
    /\ UNCHANGED <<flashVars, hdr, runNo, fwVars, booter, workVars, clientVars, req,
                   histVars, boundVars>>

(* request->status, on the way to request_finish with or without a flag to *)
(* be set in current_state.                                                *)
Finish(status) ==
    /\ req' = [req EXCEPT ![cur].status = status]
    /\ SGoto("delete")
    /\ UNCHANGED flags
FinishWith(status, flag) ==
    /\ req' = [req EXCEPT ![cur].status = status]
    /\ flags' = fw.state \cup {flag}
    /\ SGoto("flag")

SetFlag ==
    /\ spc = "flag"
    /\ fw' = [fw EXCEPT !.state = flags]
    /\ SGoto("delete")
    /\ TaskFrame
    /\ UNCHANGED <<flashVars, hdr, booter, workVars, req, silent, faults>>

(* The status of a request discarded after an earlier error, in the order  *)
(* the flags are tested.                                                   *)
Discarded == IF "IO" \in fw.state THEN "FIO"
             ELSE IF "MEM" \in fw.state THEN "FMEM" ELSE "FCRC"

(* The first HeaderLen cells of a session are the image header.  booter is *)
(* copied from the start of the buffer of every request that brings a part *)
(* of it, so it is only right when one request brings all of it.           *)
HeaderPart == Min({HeaderLen - fw.received, req[cur].len})
HeaderSeen == IF req[cur].from = 0 /\ req[cur].len >= HeaderLen
              THEN req[cur].img ELSE None
BufferKept == [req[cur] EXCEPT !.len = @ - HeaderPart]               \* mutant
PastHeader == [req[cur] EXCEPT !.from = @ + HeaderPart, !.len = @ - HeaderPart]

Refuse ==
    /\ \/ fw.state \cap Error # {} /\ Finish(Discarded)
       \/ fw.state \cap Error = {} /\ "COMPLETE" \in fw.state /\ Finish("FCOMPLETE")
    /\ UNCHANGED <<booter, reg>>

TakeHeader ==
    /\ fw.received < HeaderLen
    /\ booter' = [img |-> HeaderSeen, no |-> 0]
    /\ req' = [req EXCEPT ![cur] = PastHeader]
    /\ reg' = HeaderPart
    /\ SGoto("part")
    /\ UNCHANGED flags

TakePayload ==
    /\ fw.received >= HeaderLen
    /\ SGoto("rest")
    /\ UNCHANGED <<req, booter, reg, flags>>

TakeRequest ==
    /\ spc = "begin"
    /\ \/ Refuse
       \/ fw.state \cap (Error \cup {"COMPLETE"}) = {} /\ (TakeHeader \/ TakePayload)
    /\ TaskFrame
    /\ UNCHANGED <<flashVars, hdr, fw, crc, silent, faults>>

(* The header is complete and has been found good or bad.                  *)
TestHeader ==
    /\ spc = "hdr"
    /\ \/ fw.received # HeaderLen /\ SGoto("rest") /\ UNCHANGED <<req, flags>>
       \/ fw.received = HeaderLen /\ booter.img = None /\ FinishWith("FIO", "IO")
       \/ fw.received = HeaderLen /\ booter.img # None /\ SGoto("base")
          /\ UNCHANGED <<req, flags>>
    /\ TaskFrame
    /\ UNCHANGED <<flashVars, hdr, fw, booter, reg, crc, silent, faults>>

(* The loads from *fwup.  program_base and program_offset are added in     *)
(* either order.                                                           *)
Load ==
    /\ \/ spc = "part" /\ reg' = fw.received + reg /\ SGoto("partset")
       \/ spc = "rest" /\ reg' = fw.received + req[cur].len /\ SGoto("restset")
       \/ spc = "addr" /\ reg' = fw.base /\ SGoto("addoffset")
       \/ spc = "addr" /\ reg' = fw.offset /\ SGoto("addbase")
       \/ spc = "advance" /\ reg' = fw.offset + req[cur].len /\ SGoto("advset")
       \/ spc = "count" /\ reg' = fw.updated + req[cur].len /\ SGoto("countset")
    /\ TaskFrame
    /\ UNCHANGED <<flashVars, hdr, fw, booter, flags, crc, req, silent, faults>>

(* The stores to *fwup.                                                    *)
Store ==
    /\ \/ spc = "partset" /\ fw' = [fw EXCEPT !.received = reg] /\ SGoto("hdr")
       \/ spc = "base" /\ fw' = [fw EXCEPT !.base = Base] /\ SGoto("total")
       \/ spc = "total" /\ fw' = [fw EXCEPT !.total = PayloadLen[booter.img]] /\ SGoto("zero")
       \/ spc = "zero" /\ fw' = [fw EXCEPT !.updated = 0] /\ SGoto("rest")
       \/ spc = "restset" /\ fw' = [fw EXCEPT !.received = reg] /\ SGoto("data")
       \/ spc = "advset" /\ fw' = [fw EXCEPT !.offset = reg] /\ SGoto("count")
       \/ spc = "countset" /\ fw' = [fw EXCEPT !.updated = reg] /\ SGoto("last")
    /\ TaskFrame
    /\ UNCHANGED <<flashVars, hdr, booter, workVars, req, silent, faults>>

(* A request without payload is done.                                      *)
TestData ==
    /\ spc = "data"
    /\ \/ req[cur].len = 0 /\ Finish("SUCCESS")
       \/ req[cur].len > 0 /\ SGoto("addr") /\ UNCHANGED <<req, flags>>
    /\ TaskFrame
    /\ UNCHANGED <<flashVars, hdr, fw, booter, reg, crc, silent, faults>>

(* tls_fls_fast_write: an address past the end of the chip is refused.     *)
WriteAddr == reg + (IF spc = "addoffset" THEN fw.offset ELSE fw.base)
BeginWrite ==
    /\ spc \in {"addoffset", "addbase"}
    /\ IF WriteAddr \notin Addr
       THEN FinishWith("FIO", "IO") /\ UNCHANGED flashVars
       ELSE /\ FastBegin(WriteAddr, req[cur].img, req[cur].from, req[cur].len)
            /\ SGoto("piece")
            /\ UNCHANGED <<req, flags>>
    /\ TaskFrame
    /\ UNCHANGED <<hdr, fw, booter, reg, crc, silent, faults>>

WritePiece ==
    /\ spc = "piece"
    /\ FastPiece
    /\ SGoto(IF todo'.len = 0 THEN "advance" ELSE "piece")
    /\ TaskFrame
    /\ UNCHANGED <<hdr, fw, booter, workVars, req, silent, faults>>

(* With all of the payload written, the rest is flushed and verified       *)
(* before the header is touched.                                           *)
MoreThanTotal == fw.updated > fw.total                               \* mutant
AllWritten == fw.updated >= fw.total
HeaderFirst == "header"                                              \* mutant
AfterLast == "destroy"

TestLast ==
    /\ spc = "last"
    /\ \/ AllWritten /\ SGoto(AfterLast) /\ UNCHANGED <<req, flags>>
       \/ ~AllWritten /\ Finish("SUCCESS")
    /\ TaskFrame
    /\ UNCHANGED <<flashVars, hdr, fw, booter, reg, crc, silent, faults>>

Destroy ==
    /\ spc = "destroy"
    /\ FastDestroy
    /\ SGoto("left")
    /\ TaskFrame
    /\ UNCHANGED <<hdr, fw, booter, workVars, req, silent, faults>>

(* The length to verify is loaded once, after the buffer was allocated.    *)
BeginVerify ==
    /\ spc = "left"
    /\ \/ /\ reg' = fw.total /\ crc' = NoCrc
          /\ SGoto("verify")
          /\ UNCHANGED <<req, flags, faults>>
       \/ /\ faults < MaxFault /\ faults' = faults + 1
          /\ FinishWith("FMEM", "MEM")
          /\ UNCHANGED <<reg, crc>>
    /\ TaskFrame
    /\ UNCHANGED <<flashVars, hdr, fw, booter, silent>>

(* One block of the payload is read back, from the base the session has    *)
(* now.  tls_fls_read says OK also when flashRead had no memory and the    *)
(* buffer holds something else.  Its other error cannot occur: the header  *)
(* check has bounded the image.                                            *)
BlockMatches == nor[fw.base + crc.off] = <<booter.img, HeaderLen + crc.off>>
VerifyBlock ==
    /\ spc = "verify" /\ reg > 0
    /\ reg' = reg - 1
    /\ \/ /\ crc' = [off |-> crc.off + 1, ok |-> crc.ok /\ BlockMatches]
          /\ UNCHANGED faults
       \/ /\ faults < MaxFault /\ faults' = faults + 1
          /\ crc' = [off |-> crc.off + 1, ok |-> FALSE]
    /\ TaskFrame
    /\ UNCHANGED <<flashVars, hdr, spc, fw, booter, flags, req, silent>>

(* The CRC, taken to be collision free, against the one booter announced.  *)
SkipVerify == TRUE                                                   \* mutant
CrcMatches == crc.ok /\ booter.img # None /\ crc.off = PayloadLen[booter.img]

EndVerify ==
    /\ spc = "verify" /\ reg = 0
    /\ \/ CrcMatches /\ SGoto("header") /\ UNCHANGED <<req, flags>>
       \/ ~CrcMatches /\ FinishWith("FCRC", "CRC")
    /\ TaskFrame
    /\ UNCHANGED <<flashVars, hdr, fw, booter, reg, crc, silent, faults>>

(* tls_fwup_img_update_header: upd_no becomes one more than the larger of  *)
(* the two.  A header that could not be read for want of memory stays as   *)
(* it was initialised, number 0.                                           *)
NextNo(run, upd) == (IF upd.img # None /\ upd.no > run THEN upd.no ELSE run) + 1
NumberHeader ==
    /\ spc = "header"
    /\ \/ /\ booter' = [booter EXCEPT !.no = NextNo(runNo, hdr)]
          /\ UNCHANGED <<silent, faults>>
       \/ /\ faults < MaxFault /\ faults' = faults + 1
          /\ booter' = [booter EXCEPT !.no = NextNo(0, hdr)]
          /\ silent' = TRUE
       \/ /\ faults < MaxFault /\ faults' = faults + 1
          /\ booter' = [booter EXCEPT !.no = NextNo(runNo, BadHeader)]
          /\ UNCHANGED silent
    /\ SGoto("hdrerase")
    /\ TaskFrame
    /\ UNCHANGED <<flashVars, hdr, fw, workVars, req>>

(* tls_fls_write erases the sector and programs it.  Its result is not     *)
(* looked at: without memory for its sector buffer nothing is written, and *)
(* the update is complete all the same.                                    *)
EraseHeader ==
    /\ spc = "hdrerase"
    /\ hdr' = BadHeader
    /\ SGoto("hdrprog")
    /\ TaskFrame
    /\ UNCHANGED <<flashVars, fw, booter, workVars, req, silent, faults>>

HeaderNoMem ==
    /\ spc = "hdrerase" /\ faults < MaxFault
    /\ faults' = faults + 1 /\ silent' = TRUE
    /\ FinishWith("SUCCESS", "COMPLETE")
    /\ TaskFrame
    /\ UNCHANGED <<flashVars, hdr, fw, booter, reg, crc>>

ProgramHeader ==
    /\ spc = "hdrprog"
    /\ hdr' = booter
    /\ FinishWith("SUCCESS", "COMPLETE")
    /\ TaskFrame
    /\ UNCHANGED <<flashVars, fw, booter, reg, crc, silent, faults>>

(* request_finish                                                          *)
DeleteRequest ==
    /\ spc = "delete"
    /\ wait' = Unlinked(cur)
    /\ SGoto("clear")
    /\ UNCHANGED <<flashVars, hdr, runNo, fw, queue, loopVars, booter, workVars,
                   clientVars, req, histVars, boundVars>>

KeepBusy == fw.state                                                 \* mutant
Unbusy == fw.state \ {"BUSY"}
TestBusy ==
    /\ spc = "clear"
    /\ \/ wait = <<>> /\ flags' = Unbusy /\ SGoto("unbusy")
       \/ wait # <<>> /\ SGoto("complete") /\ UNCHANGED flags
    /\ TaskFrame
    /\ UNCHANGED <<flashVars, hdr, fw, booter, reg, crc, req, silent, faults>>

ClearBusy ==
    /\ spc = "unbusy"
    /\ fw' = [fw EXCEPT !.state = flags]
    /\ SGoto("complete")
    /\ TaskFrame
    /\ UNCHANGED <<flashVars, hdr, booter, workVars, req, silent, faults>>

(* fwup_request_complete                                                   *)
Complete ==
    /\ spc = "complete"
    /\ req' = [req EXCEPT ![cur].done = TRUE]
    /\ SGoto("check")
    /\ TaskFrame
    /\ UNCHANGED <<flashVars, hdr, fw, booter, workVars, silent, faults>>

(* The loop goes on with the request it fetched in advance, or ends.       *)
NextRequest ==
    /\ spc = "check" /\ fw.updated < fw.total
    /\ cur' = temp
    /\ IF temp = None
       THEN SGoto("recv") /\ UNCHANGED temp
       ELSE SGoto("begin") /\ temp' = Successor(temp)
    /\ UNCHANGED <<flashVars, hdr, runNo, fwVars, booter, workVars, clientVars, req,
                   histVars, boundVars>>

(* RAM is gone, and the boot loader installs a newer image.                *)
Reboot ==
    /\ cache' = NoCache /\ gsSector' = 0 /\ todo' = NoWrite
    /\ runNo' = IF hdr.img # None /\ hdr.no > runNo THEN hdr.no ELSE runNo
    /\ fw' = NoSession /\ wait' = <<>> /\ queue' = 0
    /\ spc' = "recv" /\ cur' = None /\ temp' = None /\ booter' = BadHeader
    /\ reg' = 0 /\ flags' = {} /\ crc' = NoCrc
    /\ mode' = FALSE
    /\ cpc' = [c \in Client |-> "idle"]
    /\ cl' = [c \in Client |-> NewClient]
    /\ req' = [c \in Client |-> NoRequest]
    /\ stray' = FALSE /\ silent' = FALSE

(* Also taken after an error, and when no header has arrived yet: both     *)
(* lengths are 0 then.                                                     *)
SystemReset ==
    /\ spc = "check" /\ fw.updated >= fw.total
    /\ Reboot
    /\ UNCHANGED <<nor, hdr, boundVars>>

(* A power loss may leave the sector being flushed unreadable.             *)
Flushing ==
    \/ /\ spc \in {"addoffset", "addbase"} /\ WriteAddr \in Addr
       /\ gsSector \notin {0, SectorOf(WriteAddr)}
    \/ spc = "piece" /\ SectorFull
    \/ spc = "destroy" /\ cache # NoCache
PowerLoss ==
    /\ reboots < MaxReboot
    /\ reboots' = reboots + 1
    /\ Reboot
    /\ \/ UNCHANGED nor
       \/ Flushing /\ nor' = Flushed(gsSector, [o \in Offset |-> Junk])
    /\ UNCHANGED <<hdr, sessions, faults>>

FwupTask ==
    \/ Receive \/ SetBusy \/ FirstRequest \/ TakeRequest \/ TestHeader \/ Load \/ Store
    \/ TestData \/ BeginWrite \/ WritePiece \/ TestLast \/ Destroy \/ BeginVerify
    \/ VerifyBlock \/ EndVerify \/ NumberHeader \/ EraseHeader \/ HeaderNoMem
    \/ ProgramHeader \/ SetFlag \/ DeleteRequest \/ TestBusy \/ ClearBusy
    \/ Complete \/ NextRequest \/ SystemReset

Next ==
    \/ FwupTask \/ PowerLoss
    \/ \E c \in Client : ClientStep(c) \/ ClientCall(c)

Spec == Init /\ [][Next]_vars

(* The fwup task and a source inside a call are ready tasks: FreeRTOS runs *)
(* them.  Nobody has to start an update or to send the next piece.         *)
FairSpec == Spec /\ WF_vars(FwupTask) /\ \A c \in Client : WF_vars(ClientStep(c))

-----------------------------------------------------------------------------
TypeOK ==
    /\ gsSector \in Nat /\ todo.len \in Nat
    /\ hdr.img \in Image \cup {None} /\ hdr.no \in Nat
    /\ fw.state \subseteq Flag /\ fw.busy \in BOOLEAN
    /\ queue \in 0 .. QueueSize /\ reg \in Nat /\ flags \subseteq Flag
    /\ cur \in Client \cup {None} /\ temp \in Client \cup {None}
    /\ \A c \in Client : req[c].status \in ReqStatus

(* Power losses, failed verifications, failed allocations and interfering  *)
(* sources included: a header newer than the running image is only ever in *)
(* the flash when the update area holds exactly the image it announces,    *)
(* unless a critical section fell into one of the two gaps of Between: the *)
(* image is then verified where the session had its base, at address 0.    *)
Intact(i) == \A k \in 0 .. PayloadLen[i] - 1 : nor[Base + k] = <<i, HeaderLen + k>>
HeaderMeansImage == hdr.img # None /\ hdr.no > runNo /\ ~stray => Intact(hdr.img)

(* A source that had the session to itself and got OK for every piece of   *)
(* its file, the last one included, has its image announced to the boot    *)
(* loader.  The one failure that reaches no source is a want of memory     *)
(* while the header is numbered or written (silent).                       *)
AllOkMeansUpdated ==
    \A c \in Socket :
        cpc[c] = "exit" /\ cl[c].clean /\ cl[c].ok /\ ~silent
            => hdr.img = cl[c].img /\ hdr.no > runNo

(* No payload cell answered with OK is lost on the way: it is in its place *)
(* in the update area or in the sector cache that will be flushed there,   *)
(* provided tls_fls_fast_write_init had the memory for that cache.         *)
AckedIsHeld ==
    \A c \in Socket :
        cache # NoCache /\ cpc[c] = "send" /\ cl[c].clean /\ cl[c].ok /\ cl[c].sid = fw.sid =>
            \A p \in HeaderLen .. cl[c].pos - 1 :
                LET a == Base + p - HeaderLen
                IN  \/ nor[a] = <<cl[c].img, p>>
                    \/ SectorOf(a) = gsSector /\ CacheAt(OffsetOf(a)) = <<cl[c].img, p>>

(* tls_fwup_exit is refused while BUSY is set: the task never goes back to *)
(* waiting with the flag set and nothing left to do, so a session can      *)
(* always be closed once its requests are answered.                        *)
BusyMeansWork == spc = "recv" /\ wait = <<>> => "BUSY" \notin fw.state

(* "Upgrade image area" and, behind it, "Area can be used by User"         *)
(* (wm_flash_map.h:41, 45): an update changes nothing outside the former.  *)
UpdateAreaOnly ==
    [][\A a \in Addr : a \notin Base .. UserStart - 1 => nor'[a] = nor[a]]_vars

(* tls_fwup_request_sync returns.                                          *)
RequestReturns == \A c \in Client : cpc[c] = "wait" ~> cpc[c] # "wait"
=============================================================================

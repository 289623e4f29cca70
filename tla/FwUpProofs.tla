----------------------------- MODULE FwUpProofs -----------------------------
(* Theorems about FwUp, checked by TLAPS.                                  *)
EXTENDS FwUp, TLAPS

-----------------------------------------------------------------------------
(* The inductive invariant                                                 *)

Cell == {Junk} \cup ((Image \cup {None, Junk}) \X Nat)
Header == [img : Image \cup {None}, no : Nat]
Session == [busy : BOOLEAN, sid : Nat, state : SUBSET Flag, received : Nat, total : Nat,
            updated : Nat, base : Nat, offset : Nat]
ClientData == [sid : Nat, img : Image \cup {None}, pos : Nat, ok : BOOLEAN, clean : BOOLEAN]
Request == [sid : Nat, img : Image \cup {None}, from : Nat, len : Nat, next : Nat,
            status : ReqStatus, done : BOOLEAN]

(* Where the task has the request cur in its hands: still in the list, and *)
(* unlinked; and where it has none.                                        *)
Counting == {"advance", "advset", "count", "countset", "last"}
Ending == {"destroy", "left", "verify", "header", "hdrerase", "hdrprog"}
Serving == {"begin", "part", "partset", "hdr", "base", "total", "zero", "rest", "restset", "data",
            "addr", "addoffset", "addbase", "piece", "flag", "delete"} \cup Counting \cup Ending
Served == {"clear", "unbusy", "complete"}
Idle == {"recv", "busy", "loop"}

TypeInv ==
    /\ nor \in [Addr -> Cell] /\ cache \in [Offset -> Cell] \cup {NoCache}
    /\ gsSector \in Nat
    /\ todo \in [offset : Offset, src : Image \cup {None, Junk}, pos : Nat, len : Nat]
    /\ hdr \in Header /\ booter \in Header /\ runNo \in Nat
    /\ fw \in Session /\ wait \in Seq(Client) /\ queue \in 0 .. QueueSize
    /\ reg \in Nat /\ flags \in SUBSET Flag /\ crc \in [off : Nat, ok : BOOLEAN]
    /\ spc \in {"check"} \cup Idle \cup Serving \cup Served
    /\ spc \in {"base", "total"} => booter.img \in Image
    /\ cur \in Client \cup {None} /\ temp \in Client \cup {None}
    /\ cpc \in [Client -> {"idle", "enter", "send", "append", "post", "wait", "exit", "exiting"}]
    /\ cl \in [Client -> ClientData] /\ req \in [Client -> Request]
    /\ sessions \in Nat

(* The list holds every waiting request once, and the requests the loop    *)
(* has in its two variables are where it expects them.                     *)
InList(c) == \E k \in 1 .. Len(wait) : wait[k] = c
Unanswered(c) == cpc[c] \in {"post", "wait"} /\ ~req[c].done
DoneOK(c) == req[c].done => cpc[c] \in {"post", "wait"}
ListInv ==
    /\ \A c \in Client : DoneOK(c)
    /\ \A j, k \in 1 .. Len(wait) : wait[j] = wait[k] => j = k
    /\ \A k \in 1 .. Len(wait) : Unanswered(wait[k])
    /\ spc = "busy" => wait # <<>>
    /\ spc \notin Idle => cur # None
    /\ spc \in Serving => InList(cur)
    /\ spc \in Served => Unanswered(cur) /\ ~InList(cur)
    /\ spc \notin Idle /\ temp # None => InList(temp) /\ (spc # "check" => temp # cur)

BusyInv ==
    /\ spc \in {"recv", "loop", "complete", "check"} /\ wait = <<>> => "BUSY" \notin fw.state
    /\ spc = "unbusy" => "BUSY" \notin flags

(* From the header of the image to the reset of the chip.  Unless a        *)
(* session was opened or closed in one of the gaps, a length always comes  *)
(* with the right base.                                                    *)
Newer == hdr.img # None /\ hdr.no > runNo
Matching(i, n) == \A k \in 0 .. n - 1 : nor[Base + k] = <<i, HeaderLen + k>>
HeaderInv ==
    /\ ~stray /\ (fw.total # 0 \/ Between) => fw.base = Base
    /\ ~stray /\ spc = "verify" /\ crc.ok => Matching(booter.img, crc.off)
    /\ spc \in Ending => fw.updated >= fw.total
    /\ ~stray /\ spc \in {"header", "hdrerase", "hdrprog"} => Intact(booter.img)
    /\ ~silent /\ spc \in {"hdrerase", "hdrprog"} => booter.no > runNo
    /\ Newer => /\ spc \in {"flag", "delete", "check"} \cup Served
                /\ fw.updated >= fw.total
                /\ ~stray => Intact(hdr.img)

(* A network updater that has the session to itself, all pieces OK so far. *)
Updating(c) ==
    /\ c \in Socket /\ cl[c].clean /\ cl[c].ok
    /\ cpc[c] \in {"send", "append", "post", "wait", "exit"}
Aloof(c) == cpc[c] \notin {"enter", "append", "post", "wait"}

(* The session after the first p cells of image i.                         *)
Bad == Error \cup {"COMPLETE"}
Based(i) ==
    /\ fw.state \cap Bad = {}
    /\ fw.base = Base /\ fw.total = PayloadLen[i] /\ booter.img = i
Sound(i) == Based(i) /\ fw.updated = fw.offset
Ready(i, p) ==
    /\ fw.state \cap Bad = {}
    /\ fw.received = p
    /\ p < HeaderLen => fw.offset = 0
    /\ p >= HeaderLen => Sound(i) /\ fw.offset = p - HeaderLen
CellHeld(i, q) ==
    LET a == Base + q - HeaderLen
    IN  IF SectorOf(a) = gsSector THEN cache[OffsetOf(a)] = <<i, q>> ELSE nor[a] = <<i, q>>
Held(i, p) ==
    /\ p > HeaderLen => gsSector = SectorOf(Base + p - HeaderLen)
    /\ cache # NoCache => \A q \in HeaderLen .. p - 1 : CellHeld(i, q)
Progress(i, p) ==
    IF p < FileLen(i) THEN Ready(i, p) /\ Held(i, p)
    ELSE silent \/ (hdr.img = i /\ hdr.no > runNo)

(* The request of c as it was sent; while the header is cut off; with its  *)
(* lengths counted; and with its payload in the hands of the writer.       *)
Joined(c) == req[c].from + req[c].len = req[c].next
Fresh(c) == req[c].from = cl[c].pos /\ Joined(c)
Taking(c) ==
    /\ Joined(c) /\ req[c].from <= HeaderLen /\ (req[c].from < HeaderLen => req[c].len = 0)
    /\ fw.state \cap Bad = {} /\ fw.offset = 0
    /\ booter.img \in {cl[c].img, None}
Counted(c) ==
    /\ Joined(c) /\ (req[c].len = 0 => req[c].from <= HeaderLen)
    /\ fw.state \cap Bad = {}
    /\ req[c].from < HeaderLen => req[c].len = 0 /\ fw.offset = 0
    /\ req[c].from >= HeaderLen => Sound(cl[c].img) /\ req[c].from = HeaderLen + fw.offset
    /\ Held(cl[c].img, req[c].from)
Cut(c) ==
    /\ Sound(cl[c].img)
    /\ fw.received = req[c].next
    /\ req[c].from = HeaderLen + fw.offset /\ Joined(c)
    /\ req[c].len > 0
Past(c) ==
    /\ Based(cl[c].img) /\ fw.received = req[c].next /\ Joined(c)
    /\ req[c].next = HeaderLen + fw.offset /\ req[c].from >= HeaderLen /\ req[c].len > 0

Asked(c) ==
    /\ req[c].img = cl[c].img /\ req[c].sid = cl[c].sid
    /\ cl[c].pos < req[c].next /\ req[c].next <= FileLen(cl[c].img)
HeaderWait(c) ==
    /\ spc = "part" => Taking(c) /\ reg + fw.received = req[c].from
    /\ spc = "partset" => Taking(c) /\ reg = req[c].from
    /\ spc \in {"hdr", "base", "total", "zero"} => Taking(c) /\ fw.received = req[c].from
    /\ spc \in {"base", "total", "zero"} => req[c].from = HeaderLen /\ booter.img = cl[c].img
    /\ spc \in {"total", "zero"} => fw.base = Base
    /\ spc = "zero" => fw.total = PayloadLen[cl[c].img]
    /\ spc = "rest" => Counted(c) /\ fw.received = req[c].from
    /\ spc = "restset" => Counted(c) /\ reg = req[c].next
    /\ spc = "data" => Counted(c) /\ fw.received = req[c].next
PayloadWait(c) ==
    /\ spc \in {"addr", "addoffset", "addbase"} => Cut(c) /\ Held(cl[c].img, req[c].from)
    /\ spc = "addoffset" => reg = Base
    /\ spc = "addbase" => reg = fw.offset
    /\ spc = "piece" =>
          LET a == Base + todo.pos - HeaderLen
          IN  /\ Cut(c) /\ Held(cl[c].img, todo.pos)
              /\ todo.src = cl[c].img /\ todo.len > 0
              /\ req[c].from <= todo.pos /\ todo.pos + todo.len = req[c].next
              /\ gsSector = SectorOf(a) /\ todo.offset = OffsetOf(a)
    /\ spc \in Counting => Held(cl[c].img, req[c].next)
    /\ spc \in {"advance", "advset"} => Cut(c)
    /\ spc = "advset" => reg = req[c].next - HeaderLen
    /\ spc \in {"count", "countset", "last"} => Past(c)
    /\ spc = "count" => fw.updated + req[c].len = fw.offset
    /\ spc = "countset" => reg = fw.offset
    /\ spc = "last" => fw.updated = fw.offset
WaitInv(c) ==
    /\ InList(c) /\ spc \in Idle \cup {"check", "begin"} =>
          Fresh(c) /\ Ready(cl[c].img, cl[c].pos) /\ Held(cl[c].img, cl[c].pos)
    /\ HeaderWait(c) /\ PayloadWait(c)
    /\ spc \in Ending => booter.img = cl[c].img /\ req[c].next = FileLen(cl[c].img)
    /\ spc \in {"busy", "unbusy"} => flags \cap Bad = fw.state \cap Bad
    /\ spc = "flag" /\ req[c].status = "SUCCESS" => req[c].next = FileLen(cl[c].img)
    /\ (req[c].done \/ spc \in {"flag", "delete"} \cup Served) /\ req[c].status = "SUCCESS" =>
          Progress(cl[c].img, req[c].next)
ClientOK(c) ==
    /\ cl[c].img \in Image
    /\ fw.busy /\ fw.sid = cl[c].sid
    /\ cpc[c] \in {"send", "append"} =>
          cl[c].pos < FileLen(cl[c].img) /\ Progress(cl[c].img, cl[c].pos)
    /\ cpc[c] = "exit" => Progress(cl[c].img, FileLen(cl[c].img))
    /\ cpc[c] \in {"append", "post", "wait"} => Asked(c)
    /\ cpc[c] = "append" => Fresh(c)
    /\ cpc[c] \in {"post", "wait"} => WaitInv(c)
UpdateInv ==
    /\ \A c \in Client : cpc[c] = "enter" => cl[c].pos = 0 /\ cl[c].img \in Image
    /\ \A c \in Client : Updating(c) => ClientOK(c) /\ \A o \in Client \ {c} : Aloof(o)

IInv == TypeInv /\ ListInv /\ BusyInv /\ HeaderInv /\ UpdateInv

-----------------------------------------------------------------------------
(* Cells and sectors                                                       *)

LEMMA MinOfTwo ==
  ASSUME NEW a \in Int, NEW b \in Int
  PROVE  Min({a, b}) = IF a <= b THEN a ELSE b
BY DEF Min

LEMMA Division ==
  ASSUME NEW a \in Nat
  PROVE  /\ SectorOf(a) \in Nat /\ OffsetOf(a) \in Offset
         /\ a = SectorSize * SectorOf(a) + OffsetOf(a)
BY FlashAssumption DEF SectorOf, OffsetOf, Offset

LEMMA DivisionIsUnique ==
  ASSUME NEW a \in Nat, NEW q \in Nat, NEW r \in Offset, a = SectorSize * q + r
  PROVE  SectorOf(a) = q /\ OffsetOf(a) = r
BY FlashAssumption DEF SectorOf, OffsetOf, Offset

LEMMA AddrBelow ==
  ASSUME NEW a \in Addr, NEW b \in Nat, b <= a
  PROVE  b \in Addr
BY FlashAssumption DEF Addr

-----------------------------------------------------------------------------
(* Types                                                                   *)

LEMMA AddrType ==
  /\ Base \in Nat /\ UserStart \in Nat /\ HeaderLen \in Nat /\ HeaderLen > 0
  /\ Addr \subseteq Nat /\ Chunk \subseteq Nat /\ SectorSize \in Nat /\ SectorSize > 0
  /\ \A i \in Image : PayloadLen[i] \in Nat /\ PayloadLen[i] > 0
                      /\ Base + PayloadLen[i] \in Addr
BY FlashAssumption, FwUpAssumption DEF Addr

LEMMA ClientTypes ==
  /\ NewClient \in ClientData /\ NoRequest \in Request
  /\ NoSession \in Session /\ BadHeader \in Header
BY DEF NewClient, NoRequest, NoSession, BadHeader, ClientData, Request, Session, Header,
       ReqStatus, Flag

LEMMA FlashTypes ==
  ASSUME TypeInv
  PROVE  /\ Cached \in [Offset -> Cell]
         /\ \A s, c : c \in [Offset -> Cell] => Flushed(s, c) \in [Addr -> Cell]
         /\ [o \in Offset |-> Junk] \in [Offset -> Cell]
<1>1. Cached \in [Offset -> Cell]
  BY DEF Cached, CacheAt, TypeInv, Cell
<1>2. ASSUME NEW s, NEW c \in [Offset -> Cell]
      PROVE  Flushed(s, c) \in [Addr -> Cell]
  BY <1>2, AddrType, Division DEF Flushed, TypeInv
<1> QED
  BY <1>1, <1>2 DEF Cell

LEMMA PieceTypes ==
  ASSUME TypeInv
  PROVE  /\ PieceLen \in Nat /\ PieceLen <= todo.len /\ todo.offset + PieceLen <= SectorSize
         /\ PieceLen = todo.len \/ todo.offset + PieceLen = SectorSize
         /\ todo.len > 0 => PieceLen > 0
         /\ Merged \in [Offset -> Cell]
<1>1. todo.len \in Nat /\ todo.offset \in Offset /\ todo.pos \in Nat
      /\ todo.src \in Image \cup {None, Junk}
  BY DEF TypeInv
<1>2. /\ PieceLen \in Nat /\ PieceLen <= todo.len /\ todo.offset + PieceLen <= SectorSize
      /\ PieceLen = todo.len \/ todo.offset + PieceLen = SectorSize
      /\ todo.len > 0 => PieceLen > 0
  BY <1>1, AddrType, MinOfTwo DEF PieceLen, Offset
<1>3. ASSUME NEW o \in Offset, o \in todo.offset .. todo.offset + PieceLen - 1
      PROVE  <<todo.src, todo.pos + o - todo.offset>> \in Cell
  BY <1>1, <1>2, <1>3 DEF Cell, Offset
<1>4. \A o \in Offset : CacheAt(o) \in Cell
  BY DEF CacheAt, TypeInv, Cell
<1>5. Merged \in [Offset -> Cell]
  BY <1>3, <1>4 DEF Merged
<1> QED
  BY <1>2, <1>5

LEMMA RebootTypes ==
  ASSUME TypeInv, Reboot, nor' \in [Addr -> Cell], hdr' = hdr, sessions' = sessions
  PROVE  TypeInv'
<1>1. NoWrite \in [offset : Offset, src : Image \cup {None, Junk}, pos : Nat, len : Nat]
  BY FlashAssumption DEF NoWrite, Offset
<1>2. runNo' \in Nat
  BY DEF Reboot, TypeInv, Header
<1> QED
  BY <1>1, <1>2, ClientTypes, FwUpAssumption DEF TypeInv, Reboot, NoCrc, Idle

LEMMA SuccessorType ==
  ASSUME TypeInv, NEW c \in Client, InList(c)
  PROVE  /\ Place(c) \in 1 .. Len(wait) /\ wait[Place(c)] = c
         /\ Successor(c) \in Client \cup {None}
<1>1. Place(c) \in 1 .. Len(wait) /\ wait[Place(c)] = c
  BY DEF Place, InList
<1> QED
  BY <1>1 DEF Successor, TypeInv

LEMMA FinishTypes ==
  ASSUME TypeInv, cur # None, NEW s \in ReqStatus, NEW f \in Flag,
         Finish(s) \/ FinishWith(s, f)
  PROVE  req' \in [Client -> Request] /\ flags' \in SUBSET Flag /\ spc' \in {"delete", "flag"}
<1>1. req[cur] \in Request /\ cur \in Client /\ req \in [Client -> Request]
  BY DEF TypeInv
<1>2. [req[cur] EXCEPT !.status = s] \in Request
  BY <1>1 DEF Request
<1>3. req' = [req EXCEPT ![cur] = [req[cur] EXCEPT !.status = s]]
  BY <1>1 DEF Finish, FinishWith
<1>4. fw.state \cup {f} \in SUBSET Flag
  BY DEF TypeInv, Session
<1> QED
  BY <1>1, <1>2, <1>3, <1>4 DEF Finish, FinishWith, SGoto, TypeInv

(* A step of the task at work on a request keeps the types when what it    *)
(* assigns has its type.                                                   *)
LEMMA WorkTypes ==
  ASSUME TypeInv, TaskFrame,
         nor' \in [Addr -> Cell], cache' \in [Offset -> Cell] \cup {NoCache}, gsSector' \in Nat,
         todo' \in [offset : Offset, src : Image \cup {None, Junk}, pos : Nat, len : Nat],
         hdr' \in Header, booter' \in Header, fw' \in Session,
         reg' \in Nat, flags' \in SUBSET Flag, crc' \in [off : Nat, ok : BOOLEAN],
         spc' \in {"check"} \cup Idle \cup Serving \cup Served,
         spc' \in {"base", "total"} => booter'.img \in Image, req' \in [Client -> Request]
  PROVE  TypeInv'
BY DEF TypeInv, TaskFrame, loopVars, clientVars

LEMMA AnsweredTypes ==
  ASSUME TypeInv, NEW c \in Client, NEW pos \in Nat, NEW ok \in BOOLEAN, Answered(c, pos, ok)
  PROVE  /\ cl' \in [Client -> ClientData] /\ req' \in [Client -> Request]
         /\ cpc' \in [Client -> {"idle", "enter", "send", "append", "post", "wait", "exit", "exiting"}]
<1>1. [cl[c] EXCEPT !.pos = pos, !.ok = @ /\ ok] \in ClientData
  <2>1. cl[c] \in ClientData
    BY DEF TypeInv
  <2>2. (cl[c].ok /\ ok) \in BOOLEAN
    OBVIOUS
  <2> QED
    BY <2>1, <2>2 DEF ClientData
<1>2. cl' = [cl EXCEPT ![c] = [cl[c] EXCEPT !.pos = pos, !.ok = @ /\ ok]]
  BY DEF Answered, TypeInv, ClientData
<1>3. cl' \in [Client -> ClientData]
  BY <1>1, <1>2 DEF TypeInv
<1>4. req' \in [Client -> Request]
  BY ClientTypes DEF TypeInv, Answered
<1> QED
  BY <1>3, <1>4 DEF TypeInv, Answered, Goto

LEMMA TakeRequestTypes ==
  ASSUME TypeInv, ListInv, TakeRequest
  PROVE  TypeInv'
<1> USE DEF flashVars, workVars
<1>0. /\ cur \in Client /\ cur # None /\ fw \in Session /\ req[cur] \in Request
      /\ req \in [Client -> Request]
  BY DEF TypeInv, ListInv, TakeRequest, Idle
<1>f. /\ TaskFrame /\ UNCHANGED <<nor, cache, gsSector, todo, hdr, fw, crc>>
  BY DEF TakeRequest
<1>1. CASE Refuse
  <2>1. Discarded \in ReqStatus /\ "FCOMPLETE" \in ReqStatus /\ "IO" \in Flag
    BY DEF Discarded, ReqStatus, Flag
  <2>2. req' \in [Client -> Request] /\ flags' \in SUBSET Flag /\ spc' \in {"delete", "flag"}
    BY <1>0, <1>1, <2>1, FinishTypes DEF Refuse
  <2> QED
    BY <1>1, <1>f, <2>2, WorkTypes DEF TypeInv, Refuse, Serving
<1>2. CASE TakePayload
  BY <1>2, <1>f, WorkTypes DEF TypeInv, TakePayload, Serving, SGoto
<1>3. CASE TakeHeader
  <2>0. HeaderPart \in Nat /\ HeaderPart <= req[cur].len
    BY <1>0, <1>3, AddrType, MinOfTwo DEF TakeHeader, HeaderPart, Session, Request
  <2>1. booter' \in Header
    BY <1>0, <1>3 DEF TakeHeader, Header, HeaderSeen, Request
  <2>2. req[cur].from + HeaderPart \in Nat /\ req[cur].len - HeaderPart \in Nat
    BY <1>0, <2>0 DEF Request
  <2>3. PastHeader \in Request
    BY <1>0, <2>2 DEF PastHeader, Request
  <2>4. req' \in [Client -> Request]
    BY <1>0, <1>3, <2>3 DEF TakeHeader
  <2> QED
    BY <1>3, <1>f, <2>0, <2>1, <2>4, WorkTypes DEF TypeInv, TakeHeader, Serving, SGoto
<1> QED
  BY <1>1, <1>2, <1>3 DEF TakeRequest

(* The other steps of the task that assign what it works on.               *)
Work ==
    \/ SetBusy \/ TestHeader \/ Load \/ Store \/ TestData \/ BeginWrite \/ WritePiece
    \/ TestLast \/ Destroy \/ BeginVerify \/ VerifyBlock \/ EndVerify \/ NumberHeader
    \/ EraseHeader \/ HeaderNoMem \/ ProgramHeader \/ SetFlag \/ TestBusy \/ ClearBusy \/ Complete

LEMMA WorkStepTypes ==
  ASSUME TypeInv, ListInv, Work
  PROVE  TypeInv'
<1> USE DEF flashVars, workVars, Idle, Serving, Served, Counting, Ending
<1>0. spc \notin Idle => cur \in Client /\ cur # None
  BY DEF TypeInv, ListInv
<1>t. /\ cl \in [Client -> ClientData] /\ req \in [Client -> Request] /\ fw \in Session
      /\ booter \in Header /\ hdr \in Header /\ runNo \in Nat /\ reg \in Nat
      /\ flags \in SUBSET Flag /\ crc \in [off : Nat, ok : BOOLEAN]
  BY DEF TypeInv
<1>f. \A s \in {"FIO", "FMEM", "FCRC", "SUCCESS"} : s \in ReqStatus
  BY DEF ReqStatus
<1>g. Flag = {"BUSY", "COMPLETE", "IO", "MEM", "CRC"}
  BY DEF Flag
<1>1. CASE SetBusy \/ SetFlag \/ ClearBusy
  <2>1. fw' \in Session
    BY <1>1, <1>t DEF SetBusy, SetFlag, ClearBusy, Session
  <2> QED
    BY <1>1, <2>1, WorkTypes DEF SetBusy, SetFlag, ClearBusy, TypeInv, SGoto
<1>2. CASE TestHeader
  <2>1. CASE FinishWith("FIO", "IO")
    <3>1. req' \in [Client -> Request] /\ flags' \in SUBSET Flag /\ spc' \in {"delete", "flag"}
      BY <1>0, <1>2, <1>f, <1>g, <2>1, FinishTypes DEF TestHeader
    <3> QED
      BY <1>2, <3>1, WorkTypes DEF TestHeader, TypeInv
  <2>2. CASE ~FinishWith("FIO", "IO")
    <3>1. spc' = "rest" \/ (spc' = "base" /\ booter.img # None)
      BY <1>2, <2>2 DEF TestHeader, SGoto
    <3>2. UNCHANGED <<req, flags, booter>>
      BY <1>2, <2>2 DEF TestHeader
    <3>3. spc' = "base" => booter'.img \in Image
      BY <1>t, <3>1, <3>2 DEF Header
    <3> QED
      BY <1>2, <3>1, <3>2, <3>3, WorkTypes DEF TestHeader, TypeInv
  <2> QED
    BY <2>1, <2>2
<1>3. CASE Load
  <2>1. reg' \in Nat
    <3>1. spc \notin Idle /\ req[cur] \in Request
      BY <1>0, <1>3, <1>t DEF Load
    <3> QED
      BY <1>3, <1>t, <3>1 DEF Load, Session, Request
  <2>2. spc' \in Serving \ {"base", "total"}
    BY <1>3 DEF Load, SGoto
  <2> QED
    BY <1>3, <2>1, <2>2, WorkTypes DEF Load, TypeInv
<1>4. CASE Store
  <2>1. fw' \in Session
    <3>1. spc = "total" => PayloadLen[booter.img] \in Nat
      BY AddrType DEF TypeInv
    <3> QED
      BY <1>4, <1>t, <3>1, AddrType DEF Store, Session
  <2>2. /\ spc' \in Serving /\ spc' # "base"
        /\ spc' = "total" => booter'.img \in Image
    BY <1>4 DEF Store, SGoto, TypeInv
  <2> QED
    BY <1>4, <2>1, <2>2, WorkTypes DEF Store, TypeInv
<1>5. CASE TestData \/ TestLast
  <2>1. CASE Finish("SUCCESS")
    <3>1. req' \in [Client -> Request] /\ flags' \in SUBSET Flag /\ spc' \in {"delete", "flag"}
      BY <1>0, <1>5, <1>f, <1>g, <2>1, FinishTypes DEF TestData, TestLast
    <3> QED
      BY <1>5, <3>1, WorkTypes DEF TestData, TestLast, TypeInv
  <2>2. CASE ~Finish("SUCCESS")
    BY <1>5, <2>2, WorkTypes DEF TestData, TestLast, TypeInv, SGoto, AfterLast
  <2> QED
    BY <2>1, <2>2
<1>6. CASE BeginWrite
  <2>1. CASE WriteAddr \notin Addr
    <3>1. req' \in [Client -> Request] /\ flags' \in SUBSET Flag /\ spc' \in {"delete", "flag"}
      BY <1>0, <1>6, <1>f, <1>g, <2>1, FinishTypes DEF BeginWrite
    <3> QED
      BY <1>6, <2>1, <3>1, WorkTypes DEF BeginWrite, TypeInv
  <2>2. CASE WriteAddr \in Addr
    <3> DEFINE a == WriteAddr
    <3>1. a \in Nat /\ SectorOf(a) \in Nat /\ OffsetOf(a) \in Offset
      BY <2>2, AddrType, Division
    <3>2. nor' \in [Addr -> Cell]
      BY <1>6, <2>2, FlashTypes DEF BeginWrite, FastBegin, TypeInv
    <3>3. req[cur] \in Request
      BY <1>0, <1>t, <1>6 DEF BeginWrite
    <3>4. todo' \in [offset : Offset, src : Image \cup {None, Junk}, pos : Nat, len : Nat]
      BY <1>6, <2>2, <3>1, <3>3 DEF BeginWrite, FastBegin, Request
    <3>5. gsSector' \in Nat /\ UNCHANGED <<cache, req, flags>> /\ spc' = "piece"
      BY <1>6, <2>2, <3>1 DEF BeginWrite, FastBegin, SGoto
    <3> QED
      BY <1>6, <3>2, <3>4, <3>5, WorkTypes DEF BeginWrite, TypeInv
  <2> QED
    BY <2>1, <2>2
<1>7. CASE WritePiece
  <2>1. nor' \in [Addr -> Cell] /\ cache' \in [Offset -> Cell] \cup {NoCache}
    BY <1>7, FlashTypes, PieceTypes DEF WritePiece, FastPiece, TypeInv
  <2>2. todo' \in [offset : Offset, src : Image \cup {None, Junk}, pos : Nat, len : Nat]
    <3>1. 0 \in Offset
      BY AddrType DEF Offset
    <3>2. todo.len - PieceLen \in Nat /\ todo.pos + PieceLen \in Nat
      BY PieceTypes DEF TypeInv
    <3> QED
      BY <1>7, <3>1, <3>2 DEF WritePiece, FastPiece, TypeInv
  <2>3. gsSector' \in Nat /\ spc' \in {"advance", "piece"}
    BY <1>7 DEF WritePiece, FastPiece, TypeInv, SGoto
  <2> QED
    BY <1>7, <2>1, <2>2, <2>3, WorkTypes DEF WritePiece, TypeInv
<1>8. CASE Destroy
  <2>1. nor' \in [Addr -> Cell]
    BY <1>8, FlashTypes DEF Destroy, FastDestroy, TypeInv
  <2> QED
    BY <1>8, <2>1, WorkTypes DEF Destroy, FastDestroy, TypeInv, SGoto
<1>9. CASE BeginVerify
  <2>1. CASE FinishWith("FMEM", "MEM") /\ UNCHANGED <<reg, crc>>
    <3>1. req' \in [Client -> Request] /\ flags' \in SUBSET Flag /\ spc' \in {"delete", "flag"}
      BY <1>0, <1>9, <1>f, <1>g, <2>1, FinishTypes DEF BeginVerify
    <3> QED
      BY <1>9, <2>1, <3>1, WorkTypes DEF BeginVerify, TypeInv
  <2>2. CASE ~(FinishWith("FMEM", "MEM") /\ UNCHANGED <<reg, crc>>)
    <3>1. reg' \in Nat /\ crc' \in [off : Nat, ok : BOOLEAN]
      <4>1. reg' = fw.total /\ crc' = NoCrc
        BY <1>9, <2>2 DEF BeginVerify
      <4>2. fw.total \in Nat /\ NoCrc \in [off : Nat, ok : BOOLEAN]
        BY <1>t DEF Session, NoCrc
      <4> QED
        BY <4>1, <4>2
    <3> QED
      BY <1>9, <2>2, <3>1, WorkTypes DEF BeginVerify, TypeInv, SGoto
  <2> QED
    BY <2>1, <2>2
<1>10. CASE VerifyBlock
  <2>1. reg' \in Nat
    BY <1>10, <1>t DEF VerifyBlock
  <2>2. crc' \in [off : Nat, ok : BOOLEAN]
    <3> DEFINE good == crc.ok /\ BlockMatches
    <3>1. crc.off + 1 \in Nat /\ good \in BOOLEAN
      BY <1>t
    <3>2. \/ crc' = [off |-> crc.off + 1, ok |-> good]
          \/ crc' = [off |-> crc.off + 1, ok |-> FALSE]
      BY <1>10 DEF VerifyBlock
    <3>3. \A n \in Nat, b \in BOOLEAN : [off |-> n, ok |-> b] \in [off : Nat, ok : BOOLEAN]
      OBVIOUS
    <3> HIDE DEF good
    <3> QED
      BY <3>1, <3>2, <3>3, Zenon
  <2> QED
    BY <1>10, <2>1, <2>2, WorkTypes DEF VerifyBlock, TypeInv
<1>11. CASE EndVerify
  <2>1. req' \in [Client -> Request] /\ flags' \in SUBSET Flag
        /\ spc' \in {"header", "delete", "flag"}
    BY <1>0, <1>t, <1>11, <1>f, <1>g, FinishTypes DEF EndVerify, SGoto
  <2> QED
    BY <1>11, <2>1, WorkTypes DEF EndVerify, TypeInv
<1>12. CASE NumberHeader
  <2>1. NextNo(runNo, hdr) \in Nat /\ NextNo(0, hdr) \in Nat /\ NextNo(runNo, BadHeader) \in Nat
    BY <1>t, ClientTypes DEF NextNo, Header
  <2>2. booter' \in Header
    BY <1>12, <1>t, <2>1 DEF NumberHeader, Header
  <2> QED
    BY <1>12, <2>2, WorkTypes DEF NumberHeader, TypeInv, SGoto
<1>13. CASE EraseHeader
  BY <1>13, ClientTypes, WorkTypes DEF EraseHeader, TypeInv, SGoto
<1>14. CASE HeaderNoMem \/ ProgramHeader
  <2>1. req' \in [Client -> Request] /\ flags' \in SUBSET Flag /\ spc' \in {"delete", "flag"}
    BY <1>0, <1>14, <1>f, <1>g, FinishTypes DEF HeaderNoMem, ProgramHeader
  <2> QED
    BY <1>14, <2>1, WorkTypes DEF HeaderNoMem, ProgramHeader, TypeInv
<1>15. CASE TestBusy
  BY <1>15, <1>t, WorkTypes DEF TestBusy, TypeInv, SGoto, Session, Unbusy
<1>16. CASE Complete
  <2>1. req[cur] \in Request /\ cur \in Client
    BY <1>0, <1>t, <1>16 DEF Complete
  <2>2. [req[cur] EXCEPT !.done = TRUE] \in Request
    BY <2>1 DEF Request
  <2>3. req' \in [Client -> Request]
    BY <1>16, <1>t, <2>1, <2>2 DEF Complete
  <2> QED
    BY <1>16, <2>3, WorkTypes DEF Complete, TypeInv, SGoto
<1> QED
  BY <1>1, <1>2, <1>3, <1>4, <1>5, <1>6, <1>7, <1>8, <1>9, <1>10, <1>11, <1>12, <1>13, <1>14,
     <1>15, <1>16 DEF Work

LEMMA TypeStep ==
  ASSUME TypeInv, ListInv, [Next]_vars
  PROVE  TypeInv'
<1> USE DEF flashVars, fwVars, loopVars, workVars, taskVars, clientVars, histVars, boundVars,
            Serving, Served, Idle, Counting, Ending
<1>t. /\ wait \in Seq(Client) /\ queue \in 0 .. QueueSize /\ sessions \in Nat
      /\ cl \in [Client -> ClientData] /\ req \in [Client -> Request] /\ fw \in Session
  BY DEF TypeInv
<1>c. \A d \in Client : [cl[d] EXCEPT !.clean = FALSE] \in ClientData
  BY <1>t DEF ClientData
<1>1. CASE Receive
  <2>1. flags' \in SUBSET Flag
    BY <1>1 DEF Receive, TypeInv, Session, Flag
  <2>2. queue' \in 0 .. QueueSize
    BY <1>1, <1>t, FwUpAssumption DEF Receive
  <2> QED
    BY <1>1, <2>1, <2>2 DEF Receive, TypeInv, SGoto
<1>2. CASE TakeRequest
  BY <1>2, TakeRequestTypes
<1>3. CASE Work
  BY <1>3, WorkStepTypes
<1>4. CASE FirstRequest
  <2>1. wait # <<>> => Head(wait) \in Client /\ InList(Head(wait))
    BY DEF TypeInv, InList
  <2>2. wait # <<>> => Successor(Head(wait)) \in Client \cup {None}
    BY <2>1, SuccessorType
  <2> QED
    BY <1>4, <2>1, <2>2 DEF FirstRequest, TypeInv, SGoto
<1>11. CASE DeleteRequest
  <2>1. Len(wait) > 0
    BY <1>11 DEF DeleteRequest, ListInv, InList, TypeInv
  <2>2. wait' \in Seq(Client)
    BY <1>11, <2>1 DEF DeleteRequest, Unlinked, TypeInv
  <2> QED
    BY <1>11, <2>2 DEF DeleteRequest, TypeInv, SGoto
<1>14. CASE NextRequest
  <2>1. temp # None => temp \in Client /\ Successor(temp) \in Client \cup {None}
    BY <1>14, SuccessorType DEF NextRequest, ListInv, TypeInv
  <2> QED
    BY <1>14, <2>1 DEF NextRequest, TypeInv, SGoto
<1>15. CASE SystemReset
  BY <1>15, RebootTypes DEF SystemReset, TypeInv
<1>16. CASE PowerLoss
  BY SMTT(30), <1>16, RebootTypes, FlashTypes DEF PowerLoss, TypeInv
<1>17. ASSUME NEW c \in Client, ClientStep(c) \/ ClientCall(c)
       PROVE  TypeInv'
  <2>0. cl[c] \in ClientData /\ req[c] \in Request /\ fw \in Session
    BY DEF TypeInv
  <2>1. ASSUME NEW i \in Files[c], EnterCheck(c, i)
        PROVE  TypeInv'
    <3>0. i \in Image
      BY FwUpAssumption
    <3>1. [NewClient EXCEPT !.img = i, !.clean = ~fw.busy] \in ClientData
      BY <3>0 DEF NewClient, ClientData
    <3> QED
      BY <2>1, <3>1 DEF EnterCheck, TypeInv, Goto
  <2>2. CASE EnterSet(c)
    <3>1. sessions' \in Nat /\ fw' \in Session
      <4>1. sessions + 1 \in Nat
        BY <1>t
      <4>2. [NoSession EXCEPT !.busy = TRUE, !.sid = sessions + 1] \in Session
        BY <4>1 DEF NoSession, Session
      <4> QED
        BY <2>2, <4>1, <4>2 DEF EnterSet
    <3>2. cl' \in [Client -> ClientData]
      <4>1. \A d \in Client : [cl[d] EXCEPT !.clean = FALSE] \in ClientData
        BY <1>c
      <4>2. [cl[c] EXCEPT !.sid = sessions + 1,
                          !.clean = \A o \in Client \ {c} : cpc[o] = "idle"] \in ClientData
        <5>1. (\A o \in Client \ {c} : cpc[o] = "idle") \in BOOLEAN
          OBVIOUS
        <5> HIDE DEF TypeInv
        <5> QED
          BY <2>0, <5>1, <3>1, <2>2 DEF ClientData, EnterSet
      <4> QED
        BY <2>2, <4>1, <4>2 DEF EnterSet
    <3>3. cache' \in [Offset -> Cell] \cup {NoCache} /\ UNCHANGED <<nor, gsSector, todo>>
      BY ZenonT(60), <2>2, FlashTypes DEF EnterSet, FastInit, FastInitNoMem, TypeInv
    <3> QED
      BY ZenonT(60), <2>2, <3>1, <3>2, <3>3 DEF EnterSet, TypeInv, Goto
  <2>3. ASSUME NEW n \in Chunk, Send(c, n)
        PROVE  TypeInv'
    <3>0. n \in Nat /\ cl[c].pos + n \in Nat
      BY <2>0, AddrType DEF ClientData
    <3>f. UNCHANGED <<flashVars, hdr, runNo, fwVars, taskVars, sessions>>
      BY <2>3 DEF Send
    <3>1. CASE Answered(c, cl[c].pos + n, FALSE)
      <4>1. /\ cl' \in [Client -> ClientData] /\ req' \in [Client -> Request]
            /\ cpc' \in [Client -> {"idle", "enter", "send", "append", "post", "wait", "exit", "exiting"}]
        BY <3>0, <3>1, AnsweredTypes
      <4> QED
        BY <3>f, <4>1 DEF TypeInv
    <3>2. CASE ~Answered(c, cl[c].pos + n, FALSE)
      <4>1. [sid |-> fw.sid, img |-> cl[c].img, from |-> cl[c].pos, len |-> n,
             next |-> cl[c].pos + n, status |-> "none", done |-> FALSE] \in Request
        BY <2>0, <3>0 DEF Session, ClientData, Request, ReqStatus
      <4>2. cl' = [d \in Client |-> IF d = c THEN cl[c] ELSE [cl[d] EXCEPT !.clean = FALSE]]
        BY <2>3, <3>2 DEF Send
      <4>3. cl' \in [Client -> ClientData]
        BY <1>c, <2>0, <4>2
      <4>4. req' \in [Client -> Request]
        BY <1>t, <2>3, <3>2, <4>1 DEF Send
      <4> QED
        BY ZenonT(60), <2>3, <3>2, <3>f, <4>3, <4>4 DEF Send, TypeInv, Goto
    <3> QED
      BY <3>1, <3>2
  <2>4. CASE AppendRequest(c)
    <3>1. CASE \E ok \in BOOLEAN : Answered(c, req[c].next, ok)
      <4>1. PICK ok \in BOOLEAN : Answered(c, req[c].next, ok)
        BY <3>1
      <4>2. req[c].next \in Nat
        BY <2>0 DEF Request
      <4>3. /\ cl' \in [Client -> ClientData] /\ req' \in [Client -> Request]
            /\ cpc' \in [Client -> {"idle", "enter", "send", "append", "post", "wait", "exit", "exiting"}]
        BY <4>1, <4>2, AnsweredTypes
      <4>4. wait' \in Seq(Client)
        <5>1. Append(wait, c) \in Seq(Client)
          BY <1>t
        <5> QED
          BY <1>t, <2>4, <5>1 DEF AppendRequest
      <4> QED
        BY <2>4, <4>3, <4>4 DEF AppendRequest, TypeInv
    <3>2. CASE ~\E ok \in BOOLEAN : Answered(c, req[c].next, ok)
      <4>1. [req[c] EXCEPT !.status = "IDLE"] \in Request
        BY <2>0 DEF Request, ReqStatus
      <4>2. req' = [req EXCEPT ![c].status = "IDLE"] /\ cl' = cl
        BY <2>4, <3>2 DEF AppendRequest
      <4>3. req' \in [Client -> Request] /\ wait' \in Seq(Client)
        <5>1. Append(wait, c) \in Seq(Client)
          BY <1>t
        <5>2. req' = [req EXCEPT ![c] = [req[c] EXCEPT !.status = "IDLE"]]
          BY <1>t, <4>2
        <5>3. req' \in [Client -> Request]
          BY <1>t, <4>1, <5>2
        <5> QED
          BY <1>t, <2>4, <3>2, <5>1, <5>3 DEF AppendRequest
      <4> QED
        BY SMTT(30), <2>4, <3>2, <4>2, <4>3 DEF AppendRequest, TypeInv, Goto, WakeOf
    <3> QED
      BY <3>1, <3>2
  <2>5. CASE PostMessage(c)
    <3>1. queue' \in 0 .. QueueSize
      <4>1. queue + 1 \in Int /\ QueueSize \in Nat
        BY <1>t, FwUpAssumption
      <4>2. queue' = IF queue + 1 <= QueueSize THEN queue + 1 ELSE QueueSize
        BY <2>5, <4>1, MinOfTwo DEF PostMessage
      <4> QED
        BY <1>t, <4>1, <4>2
    <3> QED
      BY <2>5, <3>1 DEF PostMessage, TypeInv, Goto
  <2>6. CASE TakeAnswer(c)
    <3>1. req[c].next \in Nat /\ (req[c].status = "SUCCESS") \in BOOLEAN
      BY <2>0 DEF Request
    <3>2. Answered(c, req[c].next, req[c].status = "SUCCESS")
      BY <2>6 DEF TakeAnswer
    <3>3. /\ cl' \in [Client -> ClientData] /\ req' \in [Client -> Request]
          /\ cpc' \in [Client -> {"idle", "enter", "send", "append", "post", "wait", "exit", "exiting"}]
      BY <3>1, <3>2, AnsweredTypes
    <3> QED
      BY <2>6, <3>3 DEF TakeAnswer, TypeInv
  <2>7. CASE ExitCheck(c)
    BY <2>7 DEF ExitCheck, TypeInv, Goto
  <2>8. CASE ExitSet(c)
    <3>2. cl' \in [Client -> ClientData] /\ fw' \in Session
      BY <1>c, <2>8, ClientTypes DEF ExitSet
    <3> QED
      BY <2>8, <3>2 DEF ExitSet, TypeInv, Goto
  <2> QED
    BY <1>17, <2>1, <2>2, <2>3, <2>4, <2>5, <2>6, <2>7, <2>8 DEF ClientStep, ClientCall
<1>18. CASE UNCHANGED vars
  BY <1>18 DEF vars, TypeInv
<1> QED
  BY <1>1, <1>2, <1>3, <1>4, <1>11, <1>14, <1>15, <1>16, <1>17, <1>18 DEF Next, FwupTask, Work

-----------------------------------------------------------------------------
(* The list of requests                                                    *)

LEMMA ListFrame ==
  ASSUME TypeInv, ListInv, UNCHANGED <<wait, cur, temp>>,
         spc' = spc \/ (spc \in Serving /\ spc' \in Serving) \/ (spc \in Served /\ spc' \in Served),
         \A c \in Client : (Unanswered(c) => Unanswered(c)') /\ DoneOK(c)'
  PROVE  ListInv'
<1>1. \A k \in 1 .. Len(wait) : wait[k] \in Client
  BY DEF TypeInv
<1>2. \A k \in 1 .. Len(wait) : Unanswered(wait[k])'
  BY <1>1 DEF ListInv
<1>3. \A c : InList(c)' = InList(c)
  BY DEF InList
<1>4. spc \in Served => cur \in Client
  BY DEF ListInv, TypeInv, Served, Idle
<1> QED
  BY <1>2, <1>3, <1>4 DEF ListInv, Serving, Served, Idle, Counting, Ending

LEMMA StatusOnly ==
  ASSUME TypeInv, cpc' = cpc,
         req' = req \/ \E s : cur \in Client /\ req' = [req EXCEPT ![cur].status = s]
  PROVE  \A c \in Client : Unanswered(c)' = Unanswered(c) /\ req'[c].done = req[c].done
<1> SUFFICES ASSUME NEW c \in Client
             PROVE  req'[c].done = req[c].done
  BY DEF Unanswered
<1>1. req \in [Client -> Request] /\ req[c] \in Request
  BY DEF TypeInv
<1>2. ASSUME NEW s, cur \in Client, req' = [req EXCEPT ![cur].status = s]
      PROVE  req'[c].done = req[c].done
  BY <1>1, <1>2 DEF Request
<1> QED
  BY <1>2

(* What a request leaves behind when it is unlinked.                       *)
LEMMA UnlinkedList ==
  ASSUME TypeInv, ListInv, NEW c \in Client, InList(c)
  PROVE  /\ Len(wait) > 0 /\ Unlinked(c) \in Seq(Client) /\ Len(Unlinked(c)) = Len(wait) - 1
         /\ \A j, k \in 1 .. Len(wait) - 1 : Unlinked(c)[j] = Unlinked(c)[k] => j = k
         /\ \A k \in 1 .. Len(wait) - 1 : Unlinked(c)[k] # c /\ InList(Unlinked(c)[k])
         /\ \A d : InList(d) /\ d # c => \E k \in 1 .. Len(wait) - 1 : Unlinked(c)[k] = d
<1> DEFINE p == Place(c)
           u == Unlinked(c)
           n == Len(wait)
<1>1. p \in 1 .. n /\ wait[p] = c /\ wait \in Seq(Client) /\ n \in Nat
  BY SuccessorType DEF TypeInv
<1>2. \A j, k \in 1 .. n : wait[j] = wait[k] => j = k
  BY DEF ListInv
<1>3. u \in Seq(Client) /\ Len(u) = n - 1
  BY <1>1 DEF Unlinked
<1>4. \A k \in 1 .. n - 1 : u[k] = IF k < p THEN wait[k] ELSE wait[k + 1]
  BY <1>1 DEF Unlinked
<1> HIDE DEF p, u, n
<1>5. \A j, k \in 1 .. n - 1 : u[j] = u[k] => j = k
  BY <1>1, <1>2, <1>4
<1>6. \A k \in 1 .. n - 1 : u[k] # c /\ \E j \in 1 .. n : wait[j] = u[k]
  BY <1>1, <1>2, <1>4
<1>7. ASSUME NEW j \in 1 .. n, wait[j] # c
      PROVE  \E k \in 1 .. n - 1 : u[k] = wait[j]
  <2>1. CASE j < p
    BY <1>1, <1>4, <2>1
  <2>2. CASE j > p
    <3>1. j - 1 \in 1 .. n - 1 /\ u[j - 1] = wait[j]
      BY <1>1, <1>4, <2>2
    <3> QED
      BY <3>1
  <2> QED
    BY <1>1, <1>7, <2>1, <2>2
<1>8. n > 0
  BY <1>1
<1>9. \A k \in 1 .. n - 1 : u[k] # c /\ InList(u[k])
  BY <1>6 DEF InList, n
<1>10. \A d : InList(d) /\ d # c => \E k \in 1 .. n - 1 : u[k] = d
  BY <1>7 DEF InList, n
<1> QED
  BY <1>3, <1>5, <1>8, <1>9, <1>10 DEF u, n

LEMMA SuccessorInList ==
  ASSUME TypeInv, ListInv, NEW c \in Client, InList(c), Successor(c) # None
  PROVE  InList(Successor(c)) /\ Successor(c) # c
<1>1. Place(c) \in 1 .. Len(wait) /\ wait[Place(c)] = c
  BY SuccessorType
<1>2. Place(c) + 1 \in 1 .. Len(wait) /\ Successor(c) = wait[Place(c) + 1]
  BY <1>1 DEF Successor, TypeInv
<1> QED
  BY <1>1, <1>2 DEF ListInv, InList

LEMMA ListOnReboot ==
  ASSUME Reboot
  PROVE  ListInv' /\ BusyInv'
<1>1. Len(wait') = 0 /\ spc' = "recv" /\ fw' = NoSession
  BY DEF Reboot
<1>2. \A c \in Client : DoneOK(c)'
  BY DEF Reboot, DoneOK, NoRequest
<1> QED
  BY <1>1, <1>2 DEF ListInv, BusyInv, NoSession, Serving, Served, Idle, Counting, Ending

(* The steps at work on a request that do not cut its header off.          *)
ServingStep ==
    \/ TestHeader \/ Load \/ Store \/ TestData \/ BeginWrite \/ WritePiece \/ TestLast
    \/ Destroy \/ BeginVerify \/ VerifyBlock \/ EndVerify \/ NumberHeader \/ EraseHeader
    \/ HeaderNoMem \/ ProgramHeader \/ SetFlag

LEMMA ServingStays ==
  ASSUME ServingStep
  PROVE  /\ spc \in Serving /\ spc' \in Serving
         /\ UNCHANGED <<runNo, wait, queue, cur, temp, mode, cpc, cl, sessions, reboots, stray>>
         /\ req' = req \/ \E s : req' = [req EXCEPT ![cur].status = s]
<1>1. TaskFrame
  BY DEF ServingStep, TestHeader, Load, Store, TestData, BeginWrite, WritePiece, TestLast,
         Destroy, BeginVerify, VerifyBlock, EndVerify, NumberHeader, EraseHeader, HeaderNoMem,
         ProgramHeader, SetFlag
<1>2. UNCHANGED <<runNo, wait, queue, cur, temp, mode, cpc, cl, sessions, reboots, stray>>
  BY <1>1 DEF TaskFrame, loopVars, clientVars
<1>3. spc \in Serving /\ spc' \in Serving
  BY DEF ServingStep, TestHeader, Load, Store, TestData, BeginWrite, WritePiece, TestLast,
         Destroy, BeginVerify, VerifyBlock, EndVerify, NumberHeader, EraseHeader, HeaderNoMem,
         ProgramHeader, SetFlag, Finish, FinishWith, SGoto, AfterLast, Serving, Counting, Ending
<1>4. req' = req \/ \E s : req' = [req EXCEPT ![cur].status = s]
  BY DEF ServingStep, TestHeader, Load, Store, TestData, BeginWrite, WritePiece, TestLast,
         Destroy, BeginVerify, VerifyBlock, EndVerify, NumberHeader, EraseHeader, HeaderNoMem,
         ProgramHeader, SetFlag, Finish, FinishWith
<1> QED
  BY <1>2, <1>3, <1>4

LEMMA ListStep ==
  ASSUME TypeInv, ListInv, [Next]_vars
  PROVE  ListInv'
<1> USE DEF flashVars, fwVars, loopVars, workVars, taskVars, clientVars, boundVars, TaskFrame, Idle
<1>0. spc \notin Idle => cur \in Client
  BY DEF TypeInv, ListInv
<1>t. wait \in Seq(Client) /\ cpc = [c \in Client |-> cpc[c]] /\ req \in [Client -> Request]
  BY DEF TypeInv
<1>i. ASSUME UNCHANGED <<wait, cpc, req>>, spc' \in Idle, spc' = "busy" => wait # <<>>
      PROVE  ListInv'
  <2>1. \A c : Unanswered(c)' = Unanswered(c) /\ DoneOK(c)' = DoneOK(c)
    BY <1>i DEF Unanswered, DoneOK
  <2> QED
    BY <1>i, <2>1 DEF ListInv, Serving, Served, Counting, Ending
<1>1. CASE Receive \/ SetBusy \/ (FirstRequest /\ wait = <<>>)
  BY <1>1, <1>i DEF Receive, SetBusy, FirstRequest, SGoto
<1>2. CASE FirstRequest /\ wait # <<>>
  <2>1. Head(wait) \in Client /\ InList(Head(wait))
    BY <1>t, <1>2 DEF InList
  <2>2. temp' # None => InList(temp') /\ temp' # Head(wait)
    BY <1>2, <2>1, SuccessorInList DEF FirstRequest
  <2>3. UNCHANGED <<wait, cpc, req>> /\ cur' = Head(wait) /\ spc' = "begin"
    BY <1>2 DEF FirstRequest, SGoto
  <2>4. \A c : InList(c)' = InList(c) /\ Unanswered(c)' = Unanswered(c) /\ DoneOK(c)' = DoneOK(c)
    BY <2>3 DEF InList, Unanswered, DoneOK
  <2>5. cur' # None
    BY <2>1, <2>3, FwUpAssumption
  <2> QED
    BY <2>1, <2>2, <2>3, <2>4, <2>5 DEF ListInv, Served
<1>r. CASE TakeRequest
  <2>1. spc \in Serving /\ spc' \in Serving /\ UNCHANGED <<wait, cur, temp, cpc>>
    BY <1>r DEF TakeRequest, Refuse, TakeHeader, TakePayload, Finish, SGoto, Serving
  <2>2. cur \in Client
    BY <1>0, <1>r DEF TakeRequest
  <2>3. \A c \in Client : req'[c].done = req[c].done
    <3>1. CASE req' = [req EXCEPT ![cur] = PastHeader]
      BY <1>t, <2>2, <3>1 DEF PastHeader, Request
    <3>2. CASE req' = req \/ \E s : req' = [req EXCEPT ![cur].status = s]
      BY <2>1, <2>2, <3>2, StatusOnly
    <3> QED
      BY <1>r, <3>1, <3>2 DEF TakeRequest, Refuse, TakeHeader, TakePayload, Finish
  <2> QED
    BY <2>1, <2>3, ListFrame DEF Unanswered, DoneOK, ListInv
<1>3. CASE ServingStep
  <2>1. /\ spc \in Serving /\ spc' \in Serving /\ UNCHANGED <<wait, cur, temp, cpc>>
        /\ req' = req \/ \E s : req' = [req EXCEPT ![cur].status = s]
    BY <1>3, ServingStays
  <2>2. cur \in Client
    BY <1>0, <2>1 DEF Serving, Counting, Ending
  <2>3. req' = req \/ \E s : cur \in Client /\ req' = [req EXCEPT ![cur].status = s]
    BY <2>1, <2>2
  <2> QED
    BY <2>1, <2>3, StatusOnly, ListFrame DEF DoneOK, ListInv
<1>4. CASE DeleteRequest
  <2>1. cur \in Client /\ InList(cur) /\ spc \in Serving
    BY <1>0, <1>4 DEF DeleteRequest, ListInv, Serving
  <2>2. wait' = Unlinked(cur) /\ spc' = "clear" /\ UNCHANGED <<cur, temp, cpc, req>>
    BY <1>4 DEF DeleteRequest, SGoto
  <2>3. Len(wait') = Len(wait) - 1 /\ Len(wait) \in Nat
    BY <1>t, <2>1, <2>2, UnlinkedList
  <2>4. \A j, k \in 1 .. Len(wait') : wait'[j] = wait'[k] => j = k
    BY <2>1, <2>2, <2>3, UnlinkedList
  <2>5. \A c : InList(c)' => InList(c) /\ c # cur
    BY <2>1, <2>2, <2>3, UnlinkedList DEF InList
  <2>6. \A c : InList(c) /\ c # cur => InList(c)'
    <3>1. \A c : InList(c) /\ c # cur => \E k \in 1 .. Len(wait) - 1 : Unlinked(cur)[k] = c
      BY <2>1, UnlinkedList
    <3>2. \A c : InList(c)' = \E k \in 1 .. Len(wait) - 1 : Unlinked(cur)[k] = c
      BY <2>2, <2>3 DEF InList
    <3> QED
      BY <3>1, <3>2
  <2>7. \A c : InList(c) => Unanswered(c)
    BY DEF InList, ListInv
  <2>8. (\A k \in 1 .. Len(wait) : InList(wait[k]))'
    BY DEF InList
  <2>9. \A c : Unanswered(c)' = Unanswered(c) /\ DoneOK(c)' = DoneOK(c)
    BY <2>2 DEF Unanswered, DoneOK
  <2> QED
    BY <2>1, <2>2, <2>4, <2>5, <2>6, <2>7, <2>8, <2>9 DEF ListInv, Serving, Served, Counting, Ending
<1>5. CASE TestBusy \/ ClearBusy
  <2>1. /\ spc \in Served /\ spc' \in Served /\ UNCHANGED <<wait, cur, temp>>
        /\ \A c \in Client : Unanswered(c)' = Unanswered(c) /\ DoneOK(c)'
    BY <1>5 DEF TestBusy, ClearBusy, SGoto, Served, Unanswered, ListInv, DoneOK
  <2> QED
    BY <2>1, ListFrame
<1>6. CASE Complete
  <2>1. cur \in Client /\ ~InList(cur) /\ spc = "complete"
    BY <1>0, <1>6 DEF Complete, ListInv, Served
  <2>2. req' = [req EXCEPT ![cur].done = TRUE] /\ spc' = "check" /\ UNCHANGED <<wait, cur, temp, cpc>>
    BY <1>6 DEF Complete, SGoto
  <2>3. \A c \in Client \ {cur} : Unanswered(c)' = Unanswered(c)
    BY <1>t, <2>2 DEF Unanswered
  <2>4. \A k \in 1 .. Len(wait) : wait[k] \in Client \ {cur}
    BY <1>t, <2>1 DEF InList
  <2>5. \A c : InList(c)' = InList(c)
    BY <2>2 DEF InList
  <2>6. \A c \in Client : DoneOK(c)'
    <3>1. Unanswered(cur)
      BY <2>1 DEF ListInv, Served
    <3> QED
      BY <1>t, <2>1, <2>2, <3>1 DEF ListInv, DoneOK, Unanswered
  <2> QED
    BY <2>1, <2>2, <2>3, <2>4, <2>5, <2>6 DEF ListInv, Serving, Served, Counting, Ending
<1>7. CASE NextRequest
  <2>1. UNCHANGED <<wait, cpc, req>> /\ cur' = temp /\ spc = "check"
    BY <1>7 DEF NextRequest
  <2>2. \A c : InList(c)' = InList(c) /\ Unanswered(c)' = Unanswered(c) /\ DoneOK(c)' = DoneOK(c)
    BY <2>1 DEF InList, Unanswered, DoneOK
  <2>3. CASE temp = None
    BY <1>7, <2>1, <2>2, <2>3 DEF ListInv, NextRequest, SGoto, Serving, Served, Counting, Ending
  <2>4. CASE temp # None
    <3>1. temp \in Client /\ InList(temp)
      BY <2>1, <2>4 DEF ListInv, TypeInv
    <3>2. temp' = Successor(temp) /\ spc' = "begin"
      BY <1>7, <2>4 DEF NextRequest, SGoto
    <3>3. temp' # None => InList(temp') /\ temp' # temp
      BY <3>1, <3>2, SuccessorInList
    <3> QED
      BY <2>1, <2>2, <2>4, <3>1, <3>2, <3>3 DEF ListInv, Served
  <2> QED
    BY <2>3, <2>4
<1>8. CASE SystemReset \/ PowerLoss
  BY <1>8, ListOnReboot DEF SystemReset, PowerLoss
<1>9. ASSUME NEW c \in Client, ClientStep(c) \/ ClientCall(c)
      PROVE  ListInv'
  <2>1. ASSUME UNCHANGED <<wait, cur, temp, spc>>, ~Unanswered(c), ~req'[c].done,
               \A d \in Client \ {c} : cpc'[d] = cpc[d] /\ req'[d] = req[d]
        PROVE  ListInv'
    <3>1. \A d \in Client \ {c} : Unanswered(d)' = Unanswered(d) /\ DoneOK(d)' = DoneOK(d)
      BY <2>1 DEF Unanswered, DoneOK
    <3> QED
      BY <2>1, <3>1, ListFrame DEF DoneOK, ListInv
  <2>d. cpc[c] \notin {"post", "wait"} => ~req[c].done
    BY DEF ListInv, DoneOK
  <2>n. ~NoRequest.done
    BY DEF NoRequest
  <2>2. ASSUME NEW i \in Files[c], EnterCheck(c, i)
        PROVE  ListInv'
    BY <1>t, <2>d, <2>1, <2>2 DEF EnterCheck, Goto, Unanswered
  <2>3. CASE EnterSet(c)
    BY <1>t, <2>d, <2>1, <2>3 DEF EnterSet, Goto, Unanswered
  <2>4. ASSUME NEW n \in Chunk, Send(c, n)
        PROVE  ListInv'
    BY <1>t, <2>n, <2>1, <2>4 DEF Send, Answered, Goto, Unanswered
  <2>5. CASE AppendRequest(c)
    <3>0. ~Unanswered(c) /\ UNCHANGED <<cur, temp, spc>>
      BY <2>5 DEF AppendRequest, Unanswered
    <3>1. CASE \E ok \in BOOLEAN : Answered(c, req[c].next, ok)
      <4>1. \A d \in Client \ {c} : cpc'[d] = cpc[d] /\ req'[d] = req[d]
        BY <1>t, <3>1 DEF Answered, Goto
      <4>2. CASE wait' = wait
        <5>1. ~req'[c].done
          BY <1>t, <2>n, <3>1 DEF Answered
        <5> QED
          BY <2>1, <3>0, <4>1, <4>2, <5>1
      <4>3. CASE req' = [req EXCEPT ![c].status = "IDLE"] /\ req' = [req EXCEPT ![c] = NoRequest]
        <5>1. req[c] \in Request
          BY <1>t
        <5>2. req'[c].status = "IDLE" /\ req'[c].status = "none"
          BY <1>t, <4>3, <5>1 DEF NoRequest, Request
        <5> QED
          BY <5>2
      <4> QED
        BY <2>5, <3>1, <4>2, <4>3 DEF AppendRequest, Answered
    <3>2. CASE /\ wait' = Append(wait, c)
               /\ req' = [req EXCEPT ![c].status = "IDLE"]
               /\ cpc' = [cpc EXCEPT ![c] = WakeOf(c)]
               /\ ~req[c].done
      <4>1. Unanswered(c)'
        BY <1>t, <3>2 DEF Unanswered, WakeOf, Request
      <4>2. \A d \in Client \ {c} : Unanswered(d)' = Unanswered(d)
        BY <1>t, <3>2 DEF Unanswered
      <4>3. ~InList(c)
        BY <3>0 DEF ListInv, InList
      <4>4. /\ Len(wait') = Len(wait) + 1 /\ wait'[Len(wait) + 1] = c /\ Len(wait) \in Nat
            /\ \A k \in 1 .. Len(wait) : wait'[k] = wait[k] /\ wait[k] \in Client
        BY <1>t, <3>2
      <4>5. \A j, k \in 1 .. Len(wait') : wait'[j] = wait'[k] => j = k
        BY <4>3, <4>4 DEF ListInv, InList
      <4>6. (\A k \in 1 .. Len(wait) : Unanswered(wait[k]))'
        <5> SUFFICES ASSUME NEW k \in 1 .. Len(wait')
                     PROVE  (cpc[wait[k]] \in {"post", "wait"} /\ ~req[wait[k]].done)'
          BY DEF Unanswered
        <5>1. CASE k = Len(wait) + 1
          BY <4>1, <4>4, <5>1 DEF Unanswered
        <5>2. CASE k \in 1 .. Len(wait)
          <6>1. wait'[k] = wait[k] /\ wait[k] \in Client \ {c} /\ Unanswered(wait[k])
            BY <4>3, <4>4, <5>2 DEF ListInv, InList
          <6> QED
            BY <4>2, <6>1 DEF Unanswered
        <5> QED
          BY <4>4, <5>1, <5>2
      <4>7. \A d : InList(d) => InList(d)'
        BY <4>4 DEF InList
      <4>8. \A d : InList(d)' => InList(d) \/ d = c
        BY <4>4 DEF InList
      <4>9. spc \in Served => cur \in Client /\ cur # c
        BY <1>0, <3>0 DEF ListInv, Served
      <4>10. \A d \in Client : DoneOK(d)'
        BY <1>t, <3>2, <4>1 DEF ListInv, DoneOK, Unanswered
      <4>11. wait' # <<>>
        BY <4>4
      <4> QED
        BY <3>0, <4>2, <4>5, <4>6, <4>7, <4>8, <4>9, <4>10, <4>11 DEF ListInv
    <3> QED
      BY <2>5, <2>d, <3>1, <3>2 DEF AppendRequest, Goto
  <2>6. CASE PostMessage(c)
    BY <1>t, <2>6, ListFrame DEF PostMessage, Goto, Unanswered, DoneOK, ListInv
  <2>7. CASE TakeAnswer(c)
    BY <1>t, <2>n, <2>1, <2>7 DEF TakeAnswer, Answered, Goto, Unanswered
  <2>8. CASE ExitCheck(c)
    BY <1>t, <2>d, <2>1, <2>8 DEF ExitCheck, Goto, Unanswered
  <2>9. CASE ExitSet(c)
    BY <1>t, <2>d, <2>1, <2>9 DEF ExitSet, Goto, Unanswered
  <2> QED
    BY <1>9, <2>2, <2>3, <2>4, <2>5, <2>6, <2>7, <2>8, <2>9 DEF ClientStep, ClientCall
<1>10. CASE UNCHANGED vars
  BY <1>10, ListFrame DEF vars, Unanswered, DoneOK, ListInv
<1> QED
  BY <1>1, <1>2, <1>r, <1>3, <1>4, <1>5, <1>6, <1>7, <1>8, <1>9, <1>10
  DEF Next, FwupTask, ServingStep

-----------------------------------------------------------------------------
(* BUSY                                                                    *)

LEMMA EmptySession ==
  ASSUME NEW c \in Client, EnterSet(c) \/ ExitSet(c)
  PROVE  /\ fw'.state = {} /\ fw'.received = 0 /\ fw'.total = 0 /\ fw'.updated = 0
         /\ fw'.offset = 0
         /\ EnterSet(c) => fw'.busy /\ fw'.sid = sessions + 1
         /\ UNCHANGED <<nor, hdr, runNo, wait, queue, taskVars, gsSector, todo, req>>
<1>1. CASE ExitSet(c)
  BY <1>1 DEF ExitSet, EnterSet, NoSession, flashVars, fwVars, Goto, taskVars
<1>2. CASE EnterSet(c)
  <2>1. fw' = [busy |-> TRUE, sid |-> sessions + 1, state |-> {}, received |-> 0, total |-> 0,
               updated |-> 0, base |-> 0, offset |-> 0]
    BY <1>2 DEF EnterSet, NoSession
  <2>2. UNCHANGED <<nor, gsSector, todo>>
    BY <1>2 DEF EnterSet, FastInit, FastInitNoMem, flashVars
  <2>3. UNCHANGED <<nor, hdr, runNo, wait, queue, taskVars, gsSector, todo, req>>
    BY <1>2, <2>2 DEF EnterSet, taskVars
  <2>4. fw'.busy = TRUE /\ fw'.sid = sessions + 1
    BY <2>1
  <2>5. fw'.state = {} /\ fw'.received = 0 /\ fw'.total = 0 /\ fw'.updated = 0 /\ fw'.offset = 0
    BY <2>1
  <2> QED
    BY <2>3, <2>4, <2>5
<1> QED
  BY <1>1, <1>2

LEMMA BusyStep ==
  ASSUME TypeInv, ListInv, BusyInv, [Next]_vars
  PROVE  BusyInv'
<1> USE DEF flashVars, fwVars, loopVars, workVars, taskVars, clientVars, boundVars, TaskFrame
<1>1. CASE Receive \/ SetBusy \/ FirstRequest
  BY <1>1 DEF Receive, SetBusy, FirstRequest, BusyInv, ListInv, SGoto
<1>2. CASE TakeRequest \/ ServingStep \/ DeleteRequest
  <2>1. spc' \in Serving \cup {"clear"}
    BY <1>2, ServingStays DEF TakeRequest, Refuse, TakeHeader, TakePayload, DeleteRequest, Finish,
                SGoto, Serving
  <2> QED
    BY <2>1 DEF BusyInv, Serving, Counting, Ending
<1>3. CASE TestBusy \/ ClearBusy
  <2>1. "BUSY" \notin Unbusy
    BY DEF Unbusy
  <2>2. spc = "unbusy" => "BUSY" \notin flags
    BY DEF BusyInv
  <2>3. CASE TestBusy
    BY <2>1, <2>3 DEF TestBusy, BusyInv, SGoto
  <2>4. CASE ClearBusy
    <3>1. fw'.state = flags /\ spc' = "complete" /\ spc = "unbusy"
      BY <2>4 DEF ClearBusy, SGoto, TypeInv, Session
    <3> QED
      BY <2>2, <3>1 DEF BusyInv
  <2> QED
    BY <1>3, <2>3, <2>4
<1>4. CASE Complete
  BY <1>4 DEF Complete, BusyInv, SGoto
<1>5. CASE NextRequest
  BY <1>5 DEF NextRequest, BusyInv, SGoto
<1>6. CASE SystemReset \/ PowerLoss
  BY <1>6, ListOnReboot DEF SystemReset, PowerLoss
<1>7. ASSUME NEW c \in Client, ClientStep(c) \/ ClientCall(c)
      PROVE  BusyInv'
  <2>1. ASSUME UNCHANGED <<spc, fw, flags>>, wait' = wait \/ wait' = Append(wait, c)
        PROVE  BusyInv'
    <3>1. Append(wait, c) # <<>>
      <4>1. wait \in Seq(Client)
        BY DEF TypeInv
      <4>2. Len(Append(wait, c)) = Len(wait) + 1 /\ Len(wait) \in Nat /\ Len(<<>>) = 0
        BY <4>1
      <4> QED
        BY <4>2
    <3> QED
      BY <2>1, <3>1 DEF BusyInv
  <2>2. CASE EnterSet(c) \/ ExitSet(c)
    <3>1. fw'.state = {} /\ UNCHANGED <<spc, flags>>
      BY <2>2, EmptySession
    <3> QED
      BY <3>1 DEF BusyInv
  <2> QED
    BY <1>7, <2>1, <2>2 DEF ClientStep, ClientCall, EnterCheck, Send, AppendRequest, PostMessage,
                            TakeAnswer, ExitCheck
<1>8. CASE UNCHANGED vars
  BY <1>8 DEF vars, BusyInv
<1> QED
  BY <1>1, <1>2, <1>3, <1>4, <1>5, <1>6, <1>7, <1>8 DEF Next, FwupTask, ServingStep

-----------------------------------------------------------------------------
(* The update header                                                       *)

LEMMA HeaderFrame ==
  ASSUME TypeInv, HeaderInv, UNCHANGED <<nor, hdr, runNo, booter, spc, reg, crc, silent>>,
         \/ UNCHANGED <<fw, stray>>
         \/ fw'.total = 0 /\ fw'.updated = 0 /\ stray' = (stray \/ Between)
  PROVE  HeaderInv'
<1>1. /\ \A i : Intact(i)' = Intact(i)
      /\ \A i, n : Matching(i, n)' = Matching(i, n)
      /\ Newer' = Newer /\ Between' = Between
  BY DEF Intact, Matching, Newer, Between
<1>2. ~stray' => ~stray
  OBVIOUS
<1>3. fw'.updated >= fw'.total \/ UNCHANGED fw
  OBVIOUS
<1>4. ~stray' /\ (fw'.total # 0 \/ Between') => fw'.base = Base
  BY <1>1 DEF HeaderInv
<1> QED
  BY <1>1, <1>2, <1>3, <1>4 DEF HeaderInv

(* Before the header is written there is none that is newer.               *)
LEMMA HeaderEarly ==
  ASSUME HeaderInv, ~Newer, hdr' = hdr, runNo' = runNo,
         ~stray' /\ (fw'.total # 0 \/ Between') => fw'.base = Base,
         spc' \notin {"verify", "header", "hdrerase", "hdrprog"},
         spc' \in {"destroy", "left"} => fw'.updated >= fw'.total
  PROVE  HeaderInv'
<1>1. ~Newer'
  BY DEF Newer
<1> QED
  BY <1>1 DEF HeaderInv, Ending

LEMMA HeaderOnReboot ==
  ASSUME TypeInv, HeaderInv, Reboot, hdr' = hdr
  PROVE  HeaderInv'
<1>1. ~Newer'
  BY DEF Reboot, TypeInv, Header, Newer
<1>2. fw'.total = 0 /\ spc' = "recv" /\ ~Between'
  BY DEF Reboot, NoSession, Between
<1> QED
  BY <1>1, <1>2 DEF HeaderInv, Ending

LEMMA HeaderStep ==
  ASSUME TypeInv, ListInv, HeaderInv, [Next]_vars
  PROVE  HeaderInv'
<1> USE DEF flashVars, fwVars, loopVars, workVars, taskVars, clientVars, histVars, boundVars, TaskFrame
<1>f. fw \in Session /\ (~stray /\ (fw.total # 0 \/ Between) => fw.base = Base)
  BY DEF TypeInv, HeaderInv
<1>n. spc \notin {"flag", "delete", "check"} \cup Served => ~Newer
  BY DEF HeaderInv
<1>e. spc \in Ending => fw.updated >= fw.total
  BY DEF HeaderInv
<1>i. nor' = nor => /\ \A i : Intact(i)' = Intact(i)
                    /\ \A i, n : Matching(i, n)' = Matching(i, n)
  BY DEF Intact, Matching
<1>1. CASE Receive \/ SetBusy \/ FirstRequest \/ TakeRequest \/ TestHeader \/ Load \/ TestData
           \/ BeginWrite \/ WritePiece \/ TestLast \/ Destroy
  <2>1. /\ fw'.total = fw.total /\ fw'.base = fw.base /\ fw'.updated = fw.updated
        /\ UNCHANGED <<hdr, runNo, stray>>
    BY <1>1, <1>f
    DEF Receive, SetBusy, FirstRequest, TakeRequest, TestHeader, Load, TestData, BeginWrite,
        WritePiece, TestLast, Destroy, Session
  <2>2. /\ spc \notin {"flag", "delete", "check"} \cup Served
        /\ spc' \notin {"total", "verify", "header", "hdrerase", "hdrprog"}
        /\ spc' \in {"destroy", "left"} => fw.updated >= fw.total
    BY <1>1, <1>e
    DEF Receive, SetBusy, FirstRequest, TakeRequest, Refuse, TakeHeader, TakePayload, TestHeader,
        Load, TestData, BeginWrite, WritePiece, TestLast, Destroy, Finish, FinishWith, SGoto,
        AfterLast, AllWritten, Served, Ending
  <2>3. ~Between'
    BY <2>2 DEF Between
  <2> QED
    BY <1>f, <1>n, <2>1, <2>2, <2>3, HeaderEarly
<1>2. CASE Store
  <2>1. UNCHANGED <<hdr, runNo, stray, reg>>
    BY <1>2 DEF Store
  <2>2. /\ spc \notin {"flag", "delete", "check"} \cup Served
        /\ spc' \notin {"verify", "header", "hdrerase", "hdrprog", "destroy", "left"}
    BY <1>2 DEF Store, SGoto, Served
  <2>3. ~stray' /\ (fw'.total # 0 \/ Between') => fw'.base = Base
    <3>1. CASE spc = "base"
      BY <1>2, <1>f, <3>1 DEF Store, Session
    <3>2. CASE spc # "base"
      <4>1. fw'.base = fw.base /\ (fw'.total = fw.total \/ spc = "total") /\ spc' # "total"
        BY <1>2, <1>f, <3>2 DEF Store, Session, SGoto
      <4> QED
        BY <1>f, <2>1, <2>2, <4>1 DEF Between
    <3> QED
      BY <3>1, <3>2
  <2> QED
    BY <1>n, <2>1, <2>2, <2>3, HeaderEarly
<1>3. CASE BeginVerify
  <2>1. /\ ~Newer /\ fw.updated >= fw.total /\ UNCHANGED <<fw, hdr, runNo, stray, nor, booter>>
    BY <1>3, <1>n, <1>e DEF BeginVerify, Served, Ending
  <2>2. CASE spc' = "flag"
    <3>1. ~Between'
      BY <2>2 DEF Between
    <3> QED
      BY <1>f, <2>1, <2>2, <3>1, HeaderEarly
  <2>3. CASE spc' # "flag"
    <3>1. reg' = fw.total /\ crc'.off = 0 /\ spc' = "verify"
      BY <1>3, <2>3 DEF BeginVerify, FinishWith, SGoto, NoCrc
    <3>2. Matching(booter.img, 0)'
      BY DEF Matching
    <3>3. ~stray' /\ (fw'.total # 0 \/ Between') => fw'.base = Base
      BY <1>f, <2>1, <3>1 DEF Between, Session
    <3>4. ~Newer'
      BY <2>1 DEF Newer
    <3> QED
      BY <2>1, <3>1, <3>2, <3>3, <3>4 DEF HeaderInv
  <2> QED
    BY <2>2, <2>3
<1>4. CASE VerifyBlock
  <2>1. /\ UNCHANGED <<fw, hdr, runNo, stray, nor, booter, spc>> /\ spc = "verify" /\ reg > 0
        /\ reg' = reg - 1 /\ reg \in Nat /\ crc.off \in Nat
    BY <1>4 DEF VerifyBlock, TypeInv
  <2>2. crc'.off = crc.off + 1 /\ (crc'.ok => crc.ok /\ BlockMatches)
    <3> DEFINE good == crc.ok /\ BlockMatches
    <3>1. \/ crc' = [off |-> crc.off + 1, ok |-> good]
          \/ crc' = [off |-> crc.off + 1, ok |-> FALSE]
      BY <1>4 DEF VerifyBlock
    <3> HIDE DEF good
    <3>2. crc'.off = crc.off + 1 /\ (crc'.ok => good)
      BY <3>1
    <3> QED
      BY <3>2 DEF good
  <2>3. ~stray => fw.base = Base
    BY <1>f, <2>1 DEF Between
  <2>4. ASSUME ~stray, crc'.ok
        PROVE  Matching(booter.img, crc.off)'
    <3>1. Matching(booter.img, crc.off)
      BY <2>1, <2>2, <2>4 DEF HeaderInv
    <3>2. nor[Base + crc.off] = <<booter.img, HeaderLen + crc.off>>
      BY <2>2, <2>3, <2>4 DEF BlockMatches
    <3>3. \A k \in 0 .. crc.off + 1 - 1 : k \in 0 .. crc.off - 1 \/ k = crc.off
      BY <2>1
    <3>4. \A k \in 0 .. crc.off + 1 - 1 : nor[Base + k] = <<booter.img, HeaderLen + k>>
      BY <3>1, <3>2, <3>3 DEF Matching
    <3> QED
      BY <2>1, <2>2, <3>4 DEF Matching
  <2>5. ~Newer /\ Newer' = Newer /\ fw.updated >= fw.total
    BY <1>n, <1>e, <2>1 DEF Newer, Served, Ending
  <2>6. ~stray' /\ (fw'.total # 0 \/ Between') => fw'.base = Base
    BY <2>1, <2>3
  <2> QED
    BY <2>1, <2>4, <2>5, <2>6 DEF HeaderInv
<1>5. CASE EndVerify
  <2>1. /\ UNCHANGED <<fw, hdr, runNo, stray, nor, booter>> /\ spc = "verify"
        /\ spc' \in {"header", "flag"} /\ ~Between'
        /\ ~Newer /\ Newer' = Newer /\ fw.updated >= fw.total
    BY <1>5, <1>n, <1>e DEF EndVerify, FinishWith, SGoto, Newer, Served, Ending, Between
  <2>2. CASE ~CrcMatches
    BY <1>5, <1>f, <2>1, <2>2, HeaderEarly DEF EndVerify, FinishWith, SGoto
  <2>3. CASE CrcMatches
    <3>1. ~stray => Intact(booter.img)
      BY <2>1, <2>3 DEF CrcMatches, HeaderInv, Matching, Intact
    <3> QED
      BY <1>f, <1>i, <2>1, <3>1 DEF HeaderInv
  <2> QED
    BY <2>2, <2>3
<1>6. CASE NumberHeader
  <2>1. /\ UNCHANGED <<fw, hdr, runNo, stray, nor>> /\ spc = "header" /\ spc' = "hdrerase"
        /\ booter'.img = booter.img
    BY <1>6 DEF NumberHeader, SGoto, TypeInv, Header
  <2>2. /\ ~Newer /\ Newer' = Newer /\ fw.updated >= fw.total /\ ~Between'
        /\ ~stray => Intact(booter.img)
    BY <1>n, <1>e, <2>1 DEF Newer, Served, Ending, Between, HeaderInv
  <2>3. /\ NextNo(runNo, hdr) \in Nat /\ NextNo(runNo, hdr) > runNo
        /\ NextNo(runNo, BadHeader) \in Nat /\ NextNo(runNo, BadHeader) > runNo
    BY ClientTypes DEF NextNo, TypeInv, Header
  <2>4. ~silent' => booter'.no > runNo'
    BY <1>6, <2>1, <2>3 DEF NumberHeader, TypeInv, Header
  <2> QED
    BY <1>f, <1>i, <2>1, <2>2, <2>4 DEF HeaderInv
<1>7. CASE EraseHeader
  <2>1. /\ UNCHANGED <<fw, runNo, stray, nor, booter, silent>>
        /\ spc = "hdrerase" /\ spc' = "hdrprog" /\ hdr' = BadHeader
    BY <1>7 DEF EraseHeader, SGoto
  <2>2. /\ ~Newer' /\ fw.updated >= fw.total /\ ~Between'
        /\ ~stray => Intact(booter.img)
        /\ ~silent => booter.no > runNo
    BY <1>e, <2>1 DEF Newer, Ending, Between, HeaderInv, BadHeader
  <2> QED
    BY <1>f, <1>i, <2>1, <2>2 DEF HeaderInv
<1>8. CASE HeaderNoMem
  <2>1. /\ UNCHANGED <<fw, hdr, runNo, stray>> /\ spc = "hdrerase" /\ spc' = "flag"
    BY <1>8 DEF HeaderNoMem, FinishWith, SGoto
  <2>2. ~Newer /\ ~Between'
    BY <1>n, <2>1 DEF Between, Served
  <2> QED
    BY <1>f, <2>1, <2>2, HeaderEarly
<1>9. CASE ProgramHeader
  <2>1. /\ UNCHANGED <<fw, runNo, stray, nor>> /\ spc = "hdrprog" /\ spc' = "flag" /\ hdr' = booter
    BY <1>9 DEF ProgramHeader, FinishWith, SGoto
  <2>2. fw.updated >= fw.total /\ ~Between' /\ (~stray => Intact(booter.img))
    BY <1>e, <2>1 DEF Ending, Between, HeaderInv
  <2>3. ~stray' => Intact(hdr.img)'
    BY <2>1, <2>2 DEF Intact
  <2> QED
    BY <1>f, <2>1, <2>2, <2>3 DEF HeaderInv, Ending
<1>11. CASE SetFlag \/ DeleteRequest \/ TestBusy \/ ClearBusy \/ Complete
  <2>1. /\ fw'.total = fw.total /\ fw'.base = fw.base /\ fw'.updated = fw.updated
        /\ UNCHANGED <<nor, hdr, runNo, stray>>
    BY <1>11, <1>f DEF SetFlag, DeleteRequest, TestBusy, ClearBusy, Complete, Session
  <2>2. /\ spc' \in {"delete", "clear", "unbusy", "complete", "check"} /\ ~Between'
        /\ Newer' = Newer
    BY <1>11, <2>1
    DEF SetFlag, DeleteRequest, TestBusy, ClearBusy, Complete, SGoto, Between, Newer
  <2> QED
    BY <1>f, <1>i, <2>1, <2>2 DEF HeaderInv, Ending, Served
<1>12. CASE NextRequest
  <2>1. ~Newer /\ ~Between' /\ spc' \in {"recv", "begin"} /\ UNCHANGED <<fw, hdr, runNo, stray>>
    BY <1>12, <1>f DEF NextRequest, HeaderInv, Session, Between, SGoto
  <2> QED
    BY <1>f, <2>1, HeaderEarly
<1>13. CASE SystemReset \/ PowerLoss
  BY <1>13, HeaderOnReboot DEF SystemReset, PowerLoss
<1>14. ASSUME NEW c \in Client, ClientStep(c) \/ ClientCall(c)
       PROVE  HeaderInv'
  <2>1. CASE UNCHANGED <<nor, hdr, runNo, booter, spc, fw, reg, crc, silent, stray>>
    BY <2>1, HeaderFrame
  <2>2. CASE EnterSet(c) \/ ExitSet(c)
    <3>1. /\ fw'.total = 0 /\ fw'.updated = 0
          /\ UNCHANGED <<nor, hdr, runNo, booter, spc, reg, crc>>
      BY <2>2, EmptySession
    <3>2. stray' = (stray \/ Between) /\ silent' = silent
      BY <2>2 DEF EnterSet, ExitSet
    <3> QED
      BY <3>1, <3>2, HeaderFrame
  <2> QED
    BY <1>14, <2>1, <2>2 DEF ClientStep, ClientCall, EnterCheck, Send, AppendRequest, PostMessage,
                             TakeAnswer, ExitCheck
<1>15. CASE UNCHANGED vars
  BY <1>15, HeaderFrame DEF vars
<1> QED
  BY <1>1, <1>2, <1>3, <1>4, <1>5, <1>6, <1>7, <1>8, <1>9, <1>11, <1>12, <1>13, <1>14,
     <1>15 DEF Next, FwupTask

-----------------------------------------------------------------------------
(* A session of one network updater                                        *)

(* Nobody else has a request under way.                                    *)
LEMMA Alone ==
  ASSUME TypeInv, ListInv, UpdateInv, NEW c \in Client, Updating(c)
  PROVE  /\ \A d : InList(d) => d = c /\ Unanswered(c)
         /\ spc \in Serving \cup Served => cur = c /\ Unanswered(c)
         /\ spc \in Serving \cup {"busy"} => InList(c) /\ Unanswered(c)
<1>1. \A d \in Client : Unanswered(d) => d = c
  BY DEF UpdateInv, Aloof, Unanswered
<1>2. \A d : InList(d) => d \in Client /\ Unanswered(d)
  BY DEF ListInv, InList, TypeInv
<1>3. spc \in Served => cur \in Client /\ Unanswered(cur)
  BY DEF ListInv, TypeInv, Served, Idle
<1>4. spc = "busy" => \E d : InList(d)
  <2>1. wait # <<>> => 1 \in 1 .. Len(wait)
    BY DEF TypeInv
  <2> QED
    BY <2>1 DEF ListInv, InList
<1> QED
  BY <1>1, <1>2, <1>3, <1>4 DEF ListInv

LEMMA ProgressFrame ==
  ASSUME UNCHANGED <<nor, cache, gsSector, hdr, runNo, booter, silent>>,
         UNCHANGED <<fw.received, fw.total, fw.updated, fw.base, fw.offset>>,
         fw'.state \cap Bad = fw.state \cap Bad
  PROVE  /\ \A i : Based(i)' = Based(i) /\ Sound(i)' = Sound(i)
         /\ \A i, p : Ready(i, p)' = Ready(i, p) /\ Held(i, p)' = Held(i, p)
         /\ \A i, p : Progress(i, p)' = Progress(i, p)
<1>1. \A i : Based(i)' = Based(i) /\ Sound(i)' = Sound(i)
  BY DEF Based, Sound
<1>2. \A i, p : Ready(i, p)' = Ready(i, p)
  BY <1>1 DEF Ready
<1>3. \A i, p : CellHeld(i, p)' = CellHeld(i, p)
  BY DEF CellHeld
<1>4. \A i, p : Held(i, p)' = Held(i, p)
  BY <1>3 DEF Held
<1> QED
  BY <1>1, <1>2, <1>4 DEF Progress

LEMMA ClientFrame ==
  ASSUME NEW c \in Client, ClientOK(c),
         cl'[c] = cl[c], cpc'[c] = cpc[c] \/ (cpc[c] = "post" /\ cpc'[c] = "wait"), req'[c] = req[c],
         UNCHANGED <<flashVars, hdr, runNo, fw, booter, reg, flags, wait, spc, silent>>
  PROVE  ClientOK(c)'
<1>1. /\ \A i : Based(i)' = Based(i) /\ Sound(i)' = Sound(i)
      /\ \A i, p : Ready(i, p)' = Ready(i, p) /\ Held(i, p)' = Held(i, p)
      /\ \A i, p : Progress(i, p)' = Progress(i, p)
  BY ProgressFrame DEF flashVars
<1>2. Asked(c)' = Asked(c) /\ Joined(c)' = Joined(c) /\ InList(c)' = InList(c)
  BY DEF Asked, Joined, InList
<1>3. Fresh(c)' = Fresh(c) /\ Taking(c)' = Taking(c)
  BY <1>2 DEF Fresh, Taking
<1>4. Counted(c)' = Counted(c)
  BY <1>1, <1>2 DEF Counted
<1>5. Cut(c)' = Cut(c) /\ Past(c)' = Past(c)
  BY <1>1, <1>2 DEF Cut, Past
<1>6. HeaderWait(c)' = HeaderWait(c)
  BY <1>3, <1>4 DEF HeaderWait
<1>7. PayloadWait(c)' = PayloadWait(c)
  BY <1>1, <1>5 DEF PayloadWait, flashVars
<1>8. WaitInv(c)' = WaitInv(c)
  BY <1>1, <1>2, <1>3, <1>6, <1>7 DEF WaitInv
<1> QED
  BY <1>1, <1>2, <1>3, <1>8 DEF ClientOK

(* The steps of the other sources.                                         *)
LEMMA OtherStep ==
  ASSUME TypeInv, ListInv, UpdateInv, NEW c \in Client, NEW d \in Client \ {c},
         ClientStep(d) \/ ClientCall(d), Updating(c)'
  PROVE  /\ ClientOK(c)' /\ Aloof(d)' /\ Updating(c)
         /\ \A o \in Client \ {c, d} : Aloof(o)' = Aloof(o)
<1> USE DEF flashVars, fwVars, loopVars, workVars, taskVars, clientVars, histVars, boundVars
<1>0. cl'[c].clean
  BY DEF Updating
<1>t. /\ cl \in [Client -> ClientData] /\ cl[c] \in ClientData
      /\ cpc = [o \in Client |-> cpc[o]] /\ req \in [Client -> Request]
  BY DEF TypeInv
<1>1. ~EnterSet(d) /\ ~ExitSet(d)
  <2>1. [cl[c] EXCEPT !.clean = FALSE].clean = FALSE
    BY <1>t DEF ClientData
  <2> QED
    BY <1>0, <2>1 DEF EnterSet, ExitSet
<1>2. \A n \in Chunk : Send(d, n) => Answered(d, cl[d].pos + n, FALSE)
  <2>1. [cl[c] EXCEPT !.clean = FALSE].clean = FALSE
    BY <1>t DEF ClientData
  <2> QED
    BY <1>0, <2>1 DEF Send
<1>3. cl'[c] = cl[c] /\ cpc'[c] = cpc[c] /\ \A o \in Client \ {d} : cpc'[o] = cpc[o]
  BY ZenonT(60), <1>1, <1>2, <1>t DEF ClientStep, ClientCall, EnterCheck, Send, AppendRequest, PostMessage,
                    TakeAnswer, ExitCheck, Answered, Goto
<1>4. Updating(c)
  BY <1>3 DEF Updating
<1>5. ClientOK(c) /\ Aloof(d) /\ fw.busy
  BY <1>4 DEF UpdateInv, ClientOK
<1>6. ~AppendRequest(d) /\ ~PostMessage(d) /\ ~TakeAnswer(d)
  BY <1>5 DEF Aloof, AppendRequest, PostMessage, TakeAnswer
<1>7. /\ req'[c] = req[c]
      /\ UNCHANGED <<flashVars, hdr, runNo, fw, booter, reg, flags, wait, spc, silent>>
      /\ cpc'[d] \in {"idle", "send", "exit", "exiting"}
  BY <1>1, <1>2, <1>5, <1>6, <1>t DEF ClientStep, ClientCall, EnterCheck, Send, ExitCheck,
                                      Answered, Goto
<1>8. ClientOK(c)'
  BY <1>3, <1>5, <1>7, ClientFrame
<1> QED
  BY <1>3, <1>4, <1>7, <1>8 DEF Aloof

LEMMA FileLenType ==
  ASSUME NEW i \in Image
  PROVE  FileLen(i) \in Nat /\ FileLen(i) = HeaderLen + PayloadLen[i] /\ FileLen(i) > HeaderLen
BY AddrType DEF FileLen

(* The steps of the updater itself.                                        *)
LEMMA OwnStep ==
  ASSUME TypeInv, ListInv, UpdateInv, NEW c \in Client,
         ClientStep(c) \/ ClientCall(c), Updating(c)'
  PROVE  ClientOK(c)' /\ \A o \in Client \ {c} : Aloof(o)'
<1> USE DEF flashVars, fwVars, loopVars, workVars, taskVars, clientVars, histVars, boundVars
<1>t. /\ cl \in [Client -> ClientData] /\ cl[c] \in ClientData
      /\ cpc = [o \in Client |-> cpc[o]] /\ req \in [Client -> Request] /\ req[c] \in Request
  BY DEF TypeInv
<1>s. c \in Socket /\ c \notin Host /\ Names(c) = cl[c].sid
  BY FwUpAssumption DEF Updating, Names
<1>u. /\ cl'[c].clean /\ cl'[c].ok
      /\ cpc'[c] \in {"send", "append", "post", "wait", "exit"}
  BY DEF Updating
<1>1. ASSUME NEW i \in Files[c], EnterCheck(c, i)
      PROVE  FALSE
  BY <1>1, <1>s, <1>t, <1>u DEF EnterCheck, Goto
<1>2. ~ExitCheck(c) /\ ~ExitSet(c)
  BY <1>t, <1>u DEF ExitCheck, ExitSet, Goto
<1>3. CASE EnterSet(c)
  <2>1. cl[c].pos = 0 /\ cl[c].img \in Image
    BY <1>3 DEF EnterSet, UpdateInv
  <2>2. cl'[c] = [cl[c] EXCEPT !.sid = sessions + 1,
                               !.clean = \A o \in Client \ {c} : cpc[o] = "idle"]
    BY <1>3 DEF EnterSet
  <2>3. cl'[c].pos = 0 /\ cl'[c].img \in Image /\ cl'[c].sid = sessions + 1
    BY <1>t, <2>1, <2>2 DEF ClientData
  <2>4. cl'[c].clean = \A o \in Client \ {c} : cpc[o] = "idle"
    BY <1>t, <2>2 DEF ClientData
  <2>5. cpc'[c] = "send" /\ \A o \in Client \ {c} : cpc'[o] = cpc[o]
    BY <1>3, <1>t DEF EnterSet, Goto
  <2>6. \A o \in Client \ {c} : Aloof(o)'
    BY <1>u, <2>4, <2>5 DEF Aloof
  <2>7. fw'.busy /\ fw'.sid = sessions + 1 /\ fw'.state = {} /\ fw'.received = 0 /\ fw'.offset = 0
    BY <1>3, EmptySession
  <2>8. \A i \in Image : Progress(i, 0)'
    <3>1. \A i : Ready(i, 0)'
      BY <2>7, AddrType DEF Ready
    <3>2. \A i : Held(i, 0)'
      BY AddrType DEF Held
    <3> QED
      BY <3>1, <3>2, FileLenType, AddrType DEF Progress
  <2>9. 0 < FileLen(cl'[c].img)
    BY <2>3, FileLenType, AddrType
  <2> QED
    BY <2>3, <2>5, <2>6, <2>7, <2>8, <2>9 DEF ClientOK
<1>4. ASSUME Updating(c), ~EnterSet(c)
      PROVE  ClientOK(c)' /\ \A o \in Client \ {c} : Aloof(o)'
  <2>0. ClientOK(c) /\ \A o \in Client \ {c} : Aloof(o)
    BY <1>4 DEF UpdateInv
  <2>i. /\ cl[c].img \in Image /\ FileLen(cl[c].img) \in Nat /\ cl[c].pos \in Nat
        /\ fw.busy /\ fw.sid = cl[c].sid /\ req[c].next \in Nat
    BY <1>t, <2>0, FileLenType DEF ClientOK, ClientData, Request
  <2>a. \A o \in Client \ {c} : cpc'[o] = cpc[o]
    BY <1>1, <1>2, <1>4, <1>t, <1>u
    DEF ClientStep, ClientCall, Send, AppendRequest, PostMessage, TakeAnswer, Answered, Goto
  <2>b. \A o \in Client \ {c} : Aloof(o)'
    BY <2>0, <2>a DEF Aloof
  <2>p. UNCHANGED <<flashVars, hdr, runNo, fw, booter, reg, flags, spc, silent>>
    BY <1>1, <1>2, <1>4, <1>t, <1>u
    DEF ClientStep, ClientCall, Send, AppendRequest, PostMessage, TakeAnswer
  <2>q. /\ \A i, p : Ready(i, p)' = Ready(i, p) /\ Held(i, p)' = Held(i, p)
        /\ \A i, p : Progress(i, p)' = Progress(i, p)
    BY <2>p, ProgressFrame
  <2>w. fw'.busy /\ fw'.sid = cl[c].sid
    BY <2>i, <2>p
  <2>1. ASSUME NEW n \in Chunk, Send(c, n)
        PROVE  ClientOK(c)'
    <3>0. ~Answered(c, cl[c].pos + n, FALSE)
      <4>1. cl' = [cl EXCEPT ![c].pos = cl[c].pos + n, ![c].ok = @ /\ FALSE] => ~cl'[c].ok
        BY <1>t DEF ClientData
      <4> QED
        BY <1>u, <4>1 DEF Answered
    <3>1. /\ req'[c] = [sid |-> fw.sid, img |-> cl[c].img, from |-> cl[c].pos, len |-> n,
                        next |-> cl[c].pos + n, status |-> "none", done |-> FALSE]
          /\ cl'[c] = cl[c] /\ cpc'[c] = "append"
      BY <1>s, <1>t, <2>1, <2>i, <3>0 DEF Send, Goto
    <3>2. n \in Nat /\ n > 0 /\ cl[c].pos + n <= FileLen(cl[c].img)
      BY <2>1, <2>i, FwUpAssumption DEF Send
    <3>3. Asked(c)' /\ Fresh(c)'
      BY <2>i, <3>1, <3>2 DEF Asked, Fresh, Joined
    <3>4. cl[c].pos < FileLen(cl[c].img) /\ Progress(cl[c].img, cl[c].pos)
      BY <2>0, <2>1 DEF ClientOK, Send
    <3> QED
      BY <2>i, <2>p, <2>q, <3>1, <3>3, <3>4 DEF ClientOK
  <2>2. CASE AppendRequest(c)
    <3>1. cpc[c] = "append" /\ Asked(c) /\ Fresh(c) /\ Progress(cl[c].img, cl[c].pos)
          /\ cl[c].pos < FileLen(cl[c].img)
      BY <2>0, <2>2 DEF AppendRequest, ClientOK
    <3>2. req[c].sid = fw.sid
      BY <2>i, <3>1 DEF Asked
    <3>3. /\ req' = [req EXCEPT ![c].status = "IDLE"] /\ cl' = cl
          /\ cpc' = [cpc EXCEPT ![c] = WakeOf(c)]
      BY <2>2, <3>2 DEF AppendRequest, Goto
    <3>4. /\ req'[c].from = req[c].from /\ req'[c].len = req[c].len /\ req'[c].next = req[c].next
          /\ req'[c].img = req[c].img /\ req'[c].sid = req[c].sid /\ req'[c].done = req[c].done
      BY <1>t, <3>3 DEF Request
    <3>5. cpc'[c] \in {"post", "wait"}
      BY <1>t, <3>3 DEF WakeOf
    <3>6. ~Unanswered(c) /\ ~req[c].done
      BY <3>1 DEF Unanswered, ListInv, DoneOK
    <3>7. spc \in {"recv", "loop", "check"}
      BY <1>4, <3>6, Alone DEF TypeInv, Idle
    <3>8. Asked(c)' /\ Fresh(c)'
      BY <3>1, <3>3, <3>4 DEF Asked, Fresh, Joined
    <3>9. Ready(cl[c].img, cl[c].pos) /\ Held(cl[c].img, cl[c].pos)
      BY <3>1 DEF Progress
    <3>10. WaitInv(c)'
      <4>1. HeaderWait(c)' /\ PayloadWait(c)'
        BY <2>p, <3>7 DEF HeaderWait, PayloadWait, Counting
      <4> QED
        BY <2>p, <2>q, <3>3, <3>4, <3>6, <3>7, <3>8, <3>9, <4>1 DEF WaitInv, Ending, Served
    <3> QED
      BY <2>b, <2>i, <2>w, <3>3, <3>5, <3>8, <3>10 DEF ClientOK
  <2>3. CASE PostMessage(c)
    <3>1. cl' = cl /\ req' = req /\ wait' = wait /\ cpc[c] = "post" /\ cpc'[c] = "wait"
      BY <1>t, <2>3 DEF PostMessage, Goto
    <3> QED
      BY <2>0, <2>b, <2>p, <3>1, ClientFrame
  <2>4. CASE TakeAnswer(c)
    <3>1. cpc[c] = "wait" /\ req[c].done /\ Asked(c) /\ WaitInv(c)
      BY <2>0, <2>4 DEF TakeAnswer, ClientOK
    <3>2. /\ cl'[c] = [cl[c] EXCEPT !.pos = req[c].next, !.ok = @ /\ (req[c].status = "SUCCESS")]
          /\ cpc'[c] = IF req[c].next < FileLen(cl[c].img) /\ (c \in Socket => req[c].status = "SUCCESS")
                       THEN "send" ELSE IF c \in Socket THEN "exit" ELSE "idle"
      BY <1>t, <2>4 DEF TakeAnswer, Answered, Goto, ClientData
    <3>3. cl'[c].ok = (cl[c].ok /\ (req[c].status = "SUCCESS"))
      BY <1>t, <3>2 DEF ClientData
    <3>4. cl'[c].pos = req[c].next /\ cl'[c].img = cl[c].img /\ cl'[c].sid = cl[c].sid
      BY <1>t, <3>2 DEF ClientData
    <3>5. req[c].status = "SUCCESS"
      BY <1>u, <3>3
    <3>6. Progress(cl[c].img, req[c].next) /\ req[c].next <= FileLen(cl[c].img)
      BY <3>1, <3>5 DEF WaitInv, Asked
    <3>7. CASE req[c].next < FileLen(cl[c].img)
      <4>1. cpc'[c] = "send"
        BY <3>2, <3>5, <3>7
      <4> QED
        BY <2>b, <2>i, <2>q, <2>w, <3>4, <3>6, <3>7, <4>1 DEF ClientOK
    <3>8. CASE req[c].next = FileLen(cl[c].img)
      <4>1. cpc'[c] = "exit"
        BY <1>s, <2>i, <3>2, <3>8
      <4> QED
        BY <2>b, <2>i, <2>q, <2>w, <3>4, <3>6, <3>8, <4>1 DEF ClientOK
    <3> QED
      BY <2>i, <3>6, <3>7, <3>8
  <2> QED
    BY <1>1, <1>2, <1>4, <2>1, <2>2, <2>3, <2>4, <2>b DEF ClientStep, ClientCall
<1>5. CASE ~Updating(c) /\ ~EnterSet(c)
  <2>1. cpc[c] \in {"send", "append", "post", "wait"}
    BY <1>1, <1>2, <1>5 DEF ClientStep, ClientCall, Send, AppendRequest, PostMessage, TakeAnswer
  <2>2. cl'[c].clean = cl[c].clean /\ (cl'[c].ok => cl[c].ok)
    <3>1. CASE cl'[c] = cl[c]
      BY <3>1
    <3>2. ASSUME NEW pos, NEW ok, cl' = [cl EXCEPT ![c].pos = pos, ![c].ok = @ /\ ok]
          PROVE  cl'[c].clean = cl[c].clean /\ (cl'[c].ok => cl[c].ok)
      <4>1. cl'[c] = [cl[c] EXCEPT !.pos = pos, !.ok = @ /\ ok]
        BY <1>t, <3>2 DEF ClientData
      <4>2. cl'[c].clean = cl[c].clean
        BY <1>t, <4>1 DEF ClientData
      <4>3. cl'[c].ok = (cl[c].ok /\ ok)
        BY <1>t, <4>1 DEF ClientData
      <4> QED
        BY <4>2, <4>3
    <3> QED
      BY ZenonT(60), <1>1, <1>2, <1>5, <3>1, <3>2
      DEF ClientStep, ClientCall, Send, AppendRequest, PostMessage, TakeAnswer, Answered
  <2> QED
    BY <1>5, <1>s, <1>u, <2>1, <2>2 DEF Updating
<1> QED
  BY <1>3, <1>4, <1>5

LEMMA SectorsInOrder ==
  ASSUME NEW a \in Nat, NEW b \in Nat, b <= a
  PROVE  /\ SectorOf(b) <= SectorOf(a)
         /\ SectorOf(b) = SectorOf(a) => OffsetOf(a) = OffsetOf(b) + (a - b)
<1>1. /\ SectorOf(a) \in Nat /\ OffsetOf(a) \in Offset /\ a = SectorSize * SectorOf(a) + OffsetOf(a)
      /\ SectorOf(b) \in Nat /\ OffsetOf(b) \in Offset /\ b = SectorSize * SectorOf(b) + OffsetOf(b)
      /\ SectorSize \in Nat /\ SectorSize > 0
  BY Division, AddrType
<1>2. ASSUME SectorOf(b) > SectorOf(a)
      PROVE  FALSE
  <2>1. SectorSize * SectorOf(b) >= SectorSize * (SectorOf(a) + 1)
    BY <1>1, <1>2
  <2>2. SectorSize * (SectorOf(a) + 1) = SectorSize * SectorOf(a) + SectorSize
    BY <1>1
  <2> QED
    BY <1>1, <2>1, <2>2 DEF Offset
<1> QED
  BY <1>1, <1>2 DEF Offset

LEMMA SectorAfter ==
  ASSUME NEW a \in Nat, NEW m \in Nat, OffsetOf(a) + m <= SectorSize
  PROVE  /\ OffsetOf(a) + m < SectorSize =>
               SectorOf(a + m) = SectorOf(a) /\ OffsetOf(a + m) = OffsetOf(a) + m
         /\ OffsetOf(a) + m = SectorSize =>
               SectorOf(a + m) = SectorOf(a) + 1 /\ OffsetOf(a + m) = 0
<1>1. /\ SectorOf(a) \in Nat /\ OffsetOf(a) \in Offset /\ a = SectorSize * SectorOf(a) + OffsetOf(a)
      /\ SectorSize \in Nat /\ SectorSize > 0
  BY Division, AddrType
<1>2. CASE OffsetOf(a) + m < SectorSize
  <2>1. a + m = SectorSize * SectorOf(a) + (OffsetOf(a) + m) /\ OffsetOf(a) + m \in Offset
        /\ a + m \in Nat
    BY <1>1, <1>2 DEF Offset
  <2> QED
    BY <1>1, <1>2, <2>1, DivisionIsUnique DEF Offset
<1>3. CASE OffsetOf(a) + m = SectorSize
  <2>1. a + m = SectorSize * (SectorOf(a) + 1) + 0 /\ 0 \in Offset /\ SectorOf(a) + 1 \in Nat
        /\ a + m \in Nat
    BY <1>1, <1>3 DEF Offset
  <2>2. SectorOf(a + m) = SectorOf(a) + 1 /\ OffsetOf(a + m) = 0
    BY <2>1, DivisionIsUnique
  <2> QED
    BY <1>1, <1>3, <2>2
<1> QED
  BY <1>1, <1>2, <1>3 DEF Offset

(* One turn of the writer's loop holds the cells it takes, and loses none  *)
(* of those before.                                                        *)
LEMMA PieceIsHeld ==
  ASSUME TypeInv, NEW i \in Image, Held(i, todo.pos), todo.src = i, FastPiece,
         HeaderLen <= todo.pos, todo.pos + todo.len <= FileLen(i),
         gsSector = SectorOf(Base + todo.pos - HeaderLen),
         todo.offset = OffsetOf(Base + todo.pos - HeaderLen)
  PROVE  /\ Held(i, todo.pos)'
         /\ gsSector' = SectorOf(Base + todo'.pos - HeaderLen)
         /\ todo'.len > 0 => OffsetOf(Base + todo'.pos - HeaderLen) = 0
<1> DEFINE p == todo.pos
           m == PieceLen
           a == Base + p - HeaderLen
<1>a. gsSector = SectorOf(a) /\ todo.offset = OffsetOf(a)
  OBVIOUS
<1>1. /\ p \in Nat /\ todo.len \in Nat /\ todo.offset \in Offset /\ m \in Nat /\ m <= todo.len
      /\ todo.offset + m <= SectorSize /\ (m = todo.len \/ todo.offset + m = SectorSize)
      /\ gsSector \in Nat /\ nor \in [Addr -> Cell]
  BY PieceTypes DEF TypeInv
<1>2. a \in Nat /\ Base \in Nat /\ HeaderLen \in Nat /\ Base + PayloadLen[i] \in Addr
      /\ FileLen(i) = HeaderLen + PayloadLen[i] /\ PayloadLen[i] \in Nat
  BY <1>1, AddrType, FileLenType
<1>3. /\ todo.offset + m < SectorSize => SectorOf(a + m) = gsSector
      /\ todo.offset + m = SectorSize => SectorOf(a + m) = gsSector + 1 /\ OffsetOf(a + m) = 0
  BY <1>1, <1>2, SectorAfter
<1>4. SectorFull = (todo.offset + m >= SectorSize)
  BY DEF SectorFull
<1>5. gsSector' = SectorOf(a + m)
  <2>1. CASE todo.offset + m < SectorSize
    <3>1. ~SectorFull
      BY <1>1, <2>1, AddrType DEF SectorFull, Offset
    <3> QED
      BY <1>3, <2>1, <3>1 DEF FastPiece
  <2>2. CASE todo.offset + m = SectorSize
    BY <1>1, <1>3, <1>4, <2>2, AddrType DEF FastPiece, Offset
  <2> QED
    BY <1>1, <2>1, <2>2, AddrType DEF Offset
<1>6. /\ todo'.len = todo.len - m /\ todo'.pos = p + m
      /\ a + m = Base + todo'.pos - HeaderLen
  <2>1. todo'.len = todo.len - m /\ todo'.pos = p + m
    BY <1>1 DEF FastPiece, TypeInv
  <2> QED
    BY <1>1, <1>2, <2>1
<1>7. ASSUME cache' # NoCache, NEW q \in HeaderLen .. (p + m) - 1
      PROVE  CellHeld(i, q)'
  <2> DEFINE b == Base + q - HeaderLen
  <2>1. q \in Nat /\ b \in Nat /\ b < a + m
    BY <1>1, <1>2, <1>7
  <2>2. b \in Addr
    <3>1. b <= Base + PayloadLen[i]
      BY <1>1, <1>2, <2>1
    <3> QED
      BY <1>2, <2>1, <3>1, AddrBelow
  <2>3. cache # NoCache /\ cache' = Merged
    BY <1>7 DEF FastPiece
  <2>4. SectorOf(b) = gsSector => OffsetOf(b) \in Offset /\ Merged[OffsetOf(b)] = <<i, q>>
    <3> SUFFICES ASSUME SectorOf(b) = gsSector
                 PROVE  OffsetOf(b) \in Offset /\ Merged[OffsetOf(b)] = <<i, q>>
      OBVIOUS
    <3>0. OffsetOf(b) \in Offset
      BY <2>1, Division
    <3>1. Merged[OffsetOf(b)] = IF OffsetOf(b) \in todo.offset .. todo.offset + m - 1
                                THEN <<i, p + OffsetOf(b) - todo.offset>> ELSE cache[OffsetOf(b)]
      BY <2>3, <3>0 DEF Merged, CacheAt
    <3>2. CASE q < p
      <4>1. OffsetOf(a) = OffsetOf(b) + (a - b) /\ a - b = p - q
        BY <1>1, <1>2, <2>1, <3>2, SectorsInOrder
      <4>2. OffsetOf(b) < todo.offset
        BY <1>1, <2>1, <3>0, <3>2, <4>1 DEF Offset
      <4>3. q \in HeaderLen .. p - 1
        BY <1>1, <1>2, <1>7, <3>2
      <4>4. CellHeld(i, q)
        BY <2>3, <4>3 DEF Held
      <4>5. cache[OffsetOf(b)] = <<i, q>>
        BY <4>4 DEF CellHeld
      <4> QED
        BY <1>1, <3>0, <3>1, <4>2, <4>5 DEF Offset
    <3>3. CASE q >= p
      <4>1. OffsetOf(b) = OffsetOf(a) + (b - a) /\ b - a = q - p
        BY <1>1, <1>2, <2>1, <3>3, SectorsInOrder
      <4>2. OffsetOf(b) \in todo.offset .. todo.offset + m - 1 /\ p + OffsetOf(b) - todo.offset = q
        BY <1>1, <1>7, <2>1, <3>0, <3>3, <4>1 DEF Offset
      <4> QED
        BY <3>0, <3>1, <4>2
    <3> QED
      BY <1>1, <2>1, <3>2, <3>3
  <2>5. SectorOf(b) # gsSector => nor[b] = <<i, q>> /\ SectorOf(b) < gsSector
    <3> SUFFICES ASSUME SectorOf(b) # gsSector
                 PROVE  nor[b] = <<i, q>> /\ SectorOf(b) < gsSector
      OBVIOUS
    <3>1. CASE q < p
      <4>1. SectorOf(b) <= gsSector /\ SectorOf(b) \in Nat
        BY <1>1, <1>2, <2>1, <3>1, SectorsInOrder, Division
      <4>2. q \in HeaderLen .. p - 1
        BY <1>1, <1>2, <1>7, <3>1
      <4>3. CellHeld(i, q)
        BY <2>3, <4>2 DEF Held
      <4> QED
        BY <1>1, <4>1, <4>3 DEF CellHeld
    <3>2. CASE q >= p
      <4>0. b - a = q - p /\ q - p < m
        BY <1>1, <1>2, <1>7, <2>1, <3>2
      <4>1. b - a \in Nat /\ todo.offset + (b - a) < SectorSize /\ a + (b - a) = b
        BY <1>1, <1>2, <2>1, <3>2, <4>0, AddrType DEF Offset
      <4> DEFINE k == b - a
      <4>2. k \in Nat /\ OffsetOf(a) + k < SectorSize /\ OffsetOf(a) + k <= SectorSize /\ a \in Nat
        BY <1>1, <1>2, <1>a, <4>1, AddrType DEF Offset
      <4>3. gsSector = SectorOf(a) /\ a + k = b
        BY <1>a, <4>1
      <4> HIDE DEF a, b, k
      <4>4. SectorOf(a + k) = gsSector
        BY <4>2, <4>3, SectorAfter
      <4> QED
        BY <4>3, <4>4
    <3> QED
      BY <1>1, <2>1, <3>1, <3>2
  <2>6. CASE SectorFull
    <3>1. gsSector' = gsSector + 1 /\ nor' = Flushed(gsSector, Merged)
      BY <2>3, <2>6 DEF FastPiece
    <3>2. nor'[b] = IF SectorOf(b) = gsSector THEN Merged[OffsetOf(b)] ELSE nor[b]
      BY <2>2, <3>1 DEF Flushed
    <3>3. SectorOf(b) # gsSector'
      BY <1>1, <2>5, <3>1
    <3> QED
      BY <2>4, <2>5, <3>2, <3>3 DEF CellHeld
  <2>7. CASE ~SectorFull
    <3>1. gsSector' = gsSector /\ nor' = nor
      BY <2>7 DEF FastPiece
    <3> QED
      BY <2>3, <2>4, <2>5, <3>1 DEF CellHeld
  <2> QED
    BY <2>6, <2>7
<1>8. Held(i, todo.pos)'
  <2>1. gsSector' = SectorOf(Base + todo'.pos - HeaderLen)
    BY <1>5, <1>6
  <2>2. cache' # NoCache => \A q \in HeaderLen .. todo'.pos - 1 : CellHeld(i, q)'
    BY <1>6, <1>7
  <2> QED
    BY <2>1, <2>2 DEF Held
<1> QED
  BY <1>1, <1>3, <1>5, <1>6, <1>8

(* What is known of the updater while it waits for an answer.              *)
LEMMA Waiting ==
  ASSUME TypeInv, ListInv, UpdateInv, NEW c \in Client, Updating(c), cpc[c] \in {"post", "wait"}
  PROVE  /\ Asked(c) /\ WaitInv(c) /\ cl[c].img \in Image /\ cl[c].pos \in Nat
         /\ req \in [Client -> Request] /\ req[c] \in Request
         /\ req[c].from \in Nat /\ req[c].len \in Nat /\ req[c].next \in Nat
         /\ spc \in Serving \cup Served => cur = c /\ ~req[c].done
         /\ spc \in Serving \cup {"busy"} => InList(c)
         /\ InList(c) => ~req[c].done
<1>1. ClientOK(c)
  BY DEF UpdateInv
<1>2. cl[c] \in ClientData /\ req[c] \in Request /\ req \in [Client -> Request]
  BY DEF TypeInv
<1> QED
  BY <1>1, <1>2, Alone DEF ClientOK, ClientData, Request, Unanswered

LEMMA StatusFields ==
  ASSUME NEW c \in Client, req \in [Client -> Request], NEW s,
         req' = [req EXCEPT ![c].status = s]
  PROVE  /\ req'[c].status = s /\ req'[c].done = req[c].done
         /\ req'[c].img = req[c].img /\ req'[c].sid = req[c].sid
         /\ req'[c].from = req[c].from /\ req'[c].len = req[c].len /\ req'[c].next = req[c].next
<1>1. req[c] \in Request
  OBVIOUS
<1> QED
  BY <1>1 DEF Request

(* The request is answered.                                                *)
LEMMA FinishedOK ==
  ASSUME NEW c \in Client, req \in [Client -> Request], Asked(c), ~req[c].done, cl'[c] = cl[c],
         NEW s, req' = [req EXCEPT ![c].status = s], spc' \in {"flag", "delete"},
         s = "SUCCESS" => Progress(cl[c].img, req[c].next)',
         s = "SUCCESS" /\ spc' = "flag" => req[c].next = FileLen(cl[c].img)
  PROVE  Asked(c)' /\ WaitInv(c)'
<1>1. /\ req'[c].status = s /\ req'[c].done = req[c].done
      /\ req'[c].img = req[c].img /\ req'[c].sid = req[c].sid /\ req'[c].next = req[c].next
  BY StatusFields
<1>2. Asked(c)'
  BY <1>1 DEF Asked
<1>3. HeaderWait(c)' /\ PayloadWait(c)'
  BY DEF HeaderWait, PayloadWait, Counting
<1> QED
  BY <1>1, <1>2, <1>3 DEF WaitInv, Idle, Ending

(* The steps of the task before and after its work on a request.           *)
LEMMA ListWork ==
  ASSUME TypeInv, ListInv, UpdateInv, NEW c \in Client, Updating(c), cpc[c] \in {"post", "wait"},
         \/ Receive \/ SetBusy \/ FirstRequest \/ NextRequest
         \/ SetFlag \/ DeleteRequest \/ TestBusy \/ ClearBusy \/ Complete
  PROVE  Asked(c)' /\ WaitInv(c)'
<1> USE DEF flashVars, fwVars, loopVars, workVars, taskVars, clientVars, histVars, boundVars, TaskFrame
<1>w. /\ Asked(c) /\ WaitInv(c) /\ cl[c].img \in Image /\ cl[c].pos \in Nat
      /\ req \in [Client -> Request] /\ req[c] \in Request
      /\ spc \in Serving \cup Served => cur = c /\ ~req[c].done
      /\ spc \in Serving \cup {"busy"} => InList(c)
      /\ InList(c) => ~req[c].done
  BY Waiting
<1>f. fw \in Session
  BY DEF TypeInv
<1>1. UNCHANGED <<nor, cache, gsSector, hdr, runNo, booter, cl, todo, silent>>
  BY DEF Receive, SetBusy, FirstRequest, NextRequest, SetFlag, DeleteRequest, TestBusy, ClearBusy,
         Complete
<1>2. UNCHANGED <<fw.received, fw.total, fw.updated, fw.base, fw.offset>>
  BY <1>f DEF Receive, SetBusy, FirstRequest, NextRequest, SetFlag, DeleteRequest, TestBusy, ClearBusy,
              Complete, Session
<1>3. /\ req'[c].img = req[c].img /\ req'[c].sid = req[c].sid /\ req'[c].status = req[c].status
      /\ req'[c].from = req[c].from /\ req'[c].len = req[c].len /\ req'[c].next = req[c].next
  <2>1. CASE req' = req
    BY <2>1
  <2>2. CASE req' = [req EXCEPT ![cur].done = TRUE]
    BY <1>w, <2>2 DEF Request
  <2> QED
    BY <2>1, <2>2 DEF Receive, SetBusy, FirstRequest, NextRequest, SetFlag, DeleteRequest, TestBusy,
                      ClearBusy, Complete
<1>4. Asked(c)' = Asked(c) /\ Fresh(c)' = Fresh(c)
  BY <1>1, <1>3 DEF Asked, Fresh, Joined
<1>5. HeaderWait(c)' /\ PayloadWait(c)'
  <2>1. spc' \in Idle \cup {"begin", "check", "delete"} \cup Served
    BY DEF Receive, SetBusy, FirstRequest, NextRequest, SetFlag, DeleteRequest, TestBusy, ClearBusy,
           Complete, SGoto, Idle, Served
  <2> QED
    BY <2>1 DEF HeaderWait, PayloadWait, Counting, Idle, Served
<1>6. CASE SetFlag
  <2>1. spc = "flag" /\ spc' = "delete" /\ ~req[c].done /\ req' = req
    BY <1>6, <1>w DEF SetFlag, SGoto, Serving
  <2>2. req[c].status = "SUCCESS" => /\ req[c].next = FileLen(cl[c].img)
                                     /\ Progress(cl[c].img, req[c].next)
    BY <1>w, <2>1 DEF WaitInv
  <2>3. ~(FileLen(cl[c].img) < FileLen(cl[c].img))
    BY <1>w, FileLenType
  <2>4. req[c].status = "SUCCESS" => Progress(cl[c].img, req[c].next)'
    BY <1>1, <2>1, <2>2, <2>3 DEF Progress
  <2> QED
    BY <1>1, <1>3, <1>4, <1>5, <1>w, <2>1, <2>4 DEF WaitInv, Idle, Ending
<1>7. CASE ~SetFlag
  <2>1. /\ fw'.state \cap Bad = fw.state \cap Bad
        /\ spc' \in {"busy", "unbusy"} => flags' \cap Bad = fw'.state \cap Bad
    <3>1. spc \in {"busy", "unbusy"} => flags \cap Bad = fw.state \cap Bad
      BY <1>w DEF WaitInv
    <3>2. CASE SetBusy \/ ClearBusy
      <4>1. fw'.state = flags /\ spc \in {"busy", "unbusy"} /\ spc' \notin {"busy", "unbusy"}
        BY <1>f, <3>2 DEF SetBusy, ClearBusy, SGoto, Session
      <4> QED
        BY <3>1, <4>1
    <3>3. CASE Receive \/ TestBusy
      <4>1. fw' = fw /\ (spc' \in {"busy", "unbusy"} => flags' \in {fw.state \cup {"BUSY"}, Unbusy})
        BY <3>3 DEF Receive, TestBusy, SGoto
      <4>2. (fw.state \cup {"BUSY"}) \cap Bad = fw.state \cap Bad /\ Unbusy \cap Bad = fw.state \cap Bad
        BY DEF Unbusy, Bad, Error
      <4> QED
        BY <4>1, <4>2
    <3>4. CASE FirstRequest \/ NextRequest \/ DeleteRequest \/ Complete
      BY <3>4 DEF FirstRequest, NextRequest, DeleteRequest, Complete, SGoto
    <3> QED
      BY <1>7, <3>2, <3>3, <3>4
  <2>2. /\ \A i, p : Ready(i, p)' = Ready(i, p) /\ Held(i, p)' = Held(i, p)
        /\ \A i, p : Progress(i, p)' = Progress(i, p)
    BY <1>1, <1>2, <2>1, ProgressFrame
  <2>3. CASE Receive \/ SetBusy \/ FirstRequest \/ NextRequest
    <3>1. wait' = wait /\ InList(c)' = InList(c) /\ req' = req
      BY <2>3 DEF Receive, SetBusy, FirstRequest, NextRequest, InList
    <3>2. spc \in {"recv", "busy", "loop", "check"} /\ spc' \in {"recv", "busy", "loop", "begin"}
      BY <2>3 DEF Receive, SetBusy, FirstRequest, NextRequest, SGoto
    <3> QED
      BY <1>1, <1>3, <1>4, <1>5, <1>w, <2>1, <2>2, <3>1, <3>2 DEF WaitInv, Idle, Ending, Served
  <2>4. CASE DeleteRequest \/ TestBusy \/ ClearBusy \/ Complete
    <3>1. /\ spc \in {"delete", "clear", "unbusy", "complete"}
          /\ spc' \in {"clear", "unbusy", "complete", "check"}
      BY <2>4 DEF DeleteRequest, TestBusy, ClearBusy, Complete, SGoto
    <3>2. spc' = "check" => wait' = wait /\ ~InList(c)
      BY <2>4, <1>w DEF DeleteRequest, TestBusy, ClearBusy, Complete, SGoto, ListInv, Served
    <3>3. spc' = "check" => ~InList(c)'
      BY <3>2 DEF InList
    <3> QED
      BY <1>1, <1>3, <1>4, <1>5, <1>w, <2>1, <2>2, <3>1, <3>3 DEF WaitInv, Idle, Ending, Served
  <2> QED
    BY <1>7, <2>3, <2>4
<1> QED
  BY <1>6, <1>7

(* The request is taken up, its header part cut off.                       *)
LEMMA TakeWork ==
  ASSUME TypeInv, ListInv, UpdateInv, NEW c \in Client, Updating(c), cpc[c] \in {"post", "wait"},
         TakeRequest
  PROVE  Asked(c)' /\ WaitInv(c)'
<1> USE DEF flashVars, fwVars, loopVars, workVars, taskVars, clientVars, histVars, boundVars, TaskFrame
<1> DEFINE i == cl[c].img
<1>w. /\ Asked(c) /\ WaitInv(c) /\ i \in Image /\ cl[c].pos \in Nat
      /\ req \in [Client -> Request] /\ req[c] \in Request
      /\ req[c].from \in Nat /\ req[c].len \in Nat /\ req[c].next \in Nat
      /\ spc = "begin" /\ cur = c /\ ~req[c].done /\ InList(c)
  BY Waiting DEF TakeRequest, Serving
<1>h. HeaderLen \in Nat /\ HeaderLen > 0
  BY AddrType
<1>r. /\ req[c].from = cl[c].pos /\ req[c].from + req[c].len = req[c].next /\ req[c].len > 0
      /\ req[c].next <= FileLen(i) /\ req[c].img = i
      /\ Ready(i, cl[c].pos) /\ Held(i, cl[c].pos)
      /\ fw.received = cl[c].pos /\ fw.state \cap Bad = {}
  BY <1>w DEF WaitInv, Fresh, Joined, Asked, Ready
<1>u. UNCHANGED <<nor, cache, gsSector, hdr, runNo, cl, fw, silent>>
  BY DEF TakeRequest
<1>1. ~Refuse
  BY <1>r DEF Refuse, Bad
<1>2. CASE TakePayload
  <2>1. spc' = "rest" /\ UNCHANGED <<req, booter, fw>> /\ fw.received >= HeaderLen
    BY <1>2, <1>u DEF TakePayload, SGoto
  <2>2. Sound(i) /\ fw.offset = cl[c].pos - HeaderLen
    BY <1>r, <2>1 DEF Ready
  <2>3. /\ \A j : Sound(j)' = Sound(j)
        /\ \A j, p : Held(j, p)' = Held(j, p)
    BY <1>u, <2>1, ProgressFrame
  <2>4. Counted(c)
    BY <1>h, <1>r, <1>w, <2>1, <2>2 DEF Counted, Joined
  <2>5. Counted(c)' /\ fw'.received = req'[c].from /\ Asked(c)'
    BY <1>r, <1>u, <1>w, <2>1, <2>3, <2>4 DEF Counted, Joined, Asked
  <2>6. HeaderWait(c)' /\ PayloadWait(c)'
    BY <2>1, <2>5 DEF HeaderWait, PayloadWait, Counting
  <2> QED
    BY <1>w, <2>1, <2>5, <2>6 DEF WaitInv, Idle, Ending, Served
<1>3. CASE TakeHeader
  <2>1. /\ cl[c].pos < HeaderLen /\ fw.offset = 0
        /\ HeaderPart = IF HeaderLen - cl[c].pos <= req[c].len THEN HeaderLen - cl[c].pos
                        ELSE req[c].len
    BY <1>3, <1>h, <1>r, <1>w, MinOfTwo DEF TakeHeader, Ready, HeaderPart
  <2>2. /\ booter' = [img |-> HeaderSeen, no |-> 0] /\ reg' = HeaderPart /\ spc' = "part"
        /\ req' = [req EXCEPT ![c] = PastHeader]
    BY <1>3, <1>w DEF TakeHeader, SGoto
  <2>3. booter'.img \in {i, None}
    BY <1>r, <1>w, <2>2 DEF HeaderSeen
  <2>4. req'[c] = [req[c] EXCEPT !.from = @ + HeaderPart, !.len = @ - HeaderPart]
    BY <1>w, <2>2 DEF PastHeader
  <2>5. /\ req'[c].from = req[c].from + HeaderPart /\ req'[c].len = req[c].len - HeaderPart
        /\ req'[c].next = req[c].next /\ req'[c].img = req[c].img /\ req'[c].sid = req[c].sid
        /\ req'[c].done = req[c].done
    BY <1>w, <2>4 DEF Request
  <2>6. Asked(c)'
    BY <1>u, <1>w, <2>5 DEF Asked
  <2>7. Joined(c)' /\ req'[c].from <= HeaderLen /\ (req'[c].from < HeaderLen => req'[c].len = 0)
    BY <1>h, <1>r, <1>w, <2>1, <2>5 DEF Joined
  <2>8. Taking(c)' /\ reg' + fw'.received = req'[c].from
    BY <1>r, <1>u, <1>w, <1>h, <2>1, <2>2, <2>3, <2>5, <2>7 DEF Taking
  <2>9. HeaderWait(c)' /\ PayloadWait(c)'
    BY <2>2, <2>8 DEF HeaderWait, PayloadWait, Counting
  <2> QED
    BY <1>w, <2>2, <2>5, <2>6, <2>9 DEF WaitInv, Idle, Ending, Served
<1> QED
  BY <1>1, <1>2, <1>3 DEF TakeRequest

(* The lengths of the header and of the request are counted, and the       *)
(* session learns what the header says.                                    *)
HeaderStepOf ==
    \/ TestHeader \/ TestData
    \/ spc \in {"part", "rest"} /\ Load
    \/ spc \in {"partset", "base", "total", "zero", "restset"} /\ Store

LEMMA HeaderWork ==
  ASSUME TypeInv, ListInv, UpdateInv, NEW c \in Client, Updating(c), cpc[c] \in {"post", "wait"},
         HeaderStepOf
  PROVE  Asked(c)' /\ WaitInv(c)'
<1> USE DEF flashVars, fwVars, loopVars, workVars, taskVars, clientVars, histVars, boundVars, TaskFrame
<1> DEFINE i == cl[c].img
<1>w. /\ Asked(c) /\ WaitInv(c) /\ i \in Image /\ cl[c].pos \in Nat
      /\ req \in [Client -> Request] /\ req[c] \in Request
      /\ req[c].from \in Nat /\ req[c].len \in Nat /\ req[c].next \in Nat
      /\ cur = c /\ ~req[c].done /\ InList(c)
  BY Waiting DEF HeaderStepOf, TestHeader, TestData, Serving
<1>f. /\ fw \in Session /\ fw.received \in Nat /\ fw.offset \in Nat /\ fw.updated \in Nat
      /\ reg \in Nat /\ booter.img \in Image \cup {None}
  BY DEF TypeInv, Session, Header
<1>h. /\ HeaderLen \in Nat /\ HeaderLen > 0 /\ FileLen(i) \in Nat /\ FileLen(i) > HeaderLen
      /\ None \notin Image
  BY <1>w, AddrType, FileLenType, FwUpAssumption
<1>u. UNCHANGED <<nor, cache, gsSector, hdr, runNo, cl, silent, booter>>
  BY DEF HeaderStepOf, TestHeader, TestData, Load, Store
<1>d. \A j, p : Held(j, p)' = Held(j, p)
  BY <1>u DEF Held, CellHeld
<1>e. \A j, p : p \in Nat /\ p <= HeaderLen => Held(j, p)
  BY <1>h DEF Held
<1>b. ASSUME req' = req,
             spc' \in {"partset", "hdr", "base", "total", "zero", "rest", "restset", "data", "addr"},
             HeaderWait(c)', spc' = "addr" => Cut(c)' /\ Held(cl[c].img, req[c].from)'
      PROVE  Asked(c)' /\ WaitInv(c)'
  <2>1. Asked(c)'
    BY <1>b, <1>u, <1>w DEF Asked
  <2>2. PayloadWait(c)'
    BY <1>b DEF PayloadWait, Counting
  <2> QED
    BY <1>b, <1>w, <2>1, <2>2 DEF WaitInv, Idle, Ending, Served
<1>1. CASE spc = "part" /\ Load
  <2>1. spc' = "partset" /\ UNCHANGED <<fw, req>> /\ reg' = fw.received + reg
    BY <1>1 DEF Load, SGoto
  <2>2. Taking(c) /\ reg + fw.received = req[c].from
    BY <1>1, <1>w DEF WaitInv, HeaderWait
  <2>3. Taking(c)' /\ reg' = req'[c].from
    BY <1>f, <1>u, <2>1, <2>2 DEF Taking, Joined
  <2>4. HeaderWait(c)'
    BY <2>1, <2>3 DEF HeaderWait
  <2> QED
    BY <1>b, <2>1, <2>4
<1>2. CASE spc = "partset" /\ Store
  <2>1. spc' = "hdr" /\ req' = req /\ fw' = [fw EXCEPT !.received = reg]
    BY <1>2 DEF Store, SGoto
  <2>2. fw'.received = reg /\ fw'.state = fw.state /\ fw'.offset = fw.offset
    BY <1>f, <2>1 DEF Session
  <2>3. Taking(c) /\ reg = req[c].from
    BY <1>2, <1>w DEF WaitInv, HeaderWait
  <2>4. Taking(c)' /\ fw'.received = req'[c].from
    BY <1>u, <2>1, <2>2, <2>3 DEF Taking, Joined
  <2>5. HeaderWait(c)'
    BY <2>1, <2>4 DEF HeaderWait
  <2> QED
    BY <1>b, <2>1, <2>5
<1>3. CASE TestHeader
  <2>0. Taking(c) /\ fw.received = req[c].from /\ UNCHANGED fw
    BY <1>3, <1>w DEF WaitInv, HeaderWait, TestHeader
  <2>1. CASE spc' = "rest"
    <3>1. req' = req /\ fw.received # HeaderLen
      BY <1>3, <2>1 DEF TestHeader, FinishWith, SGoto
    <3>2. req[c].from < HeaderLen /\ req[c].len = 0
      BY <1>h, <1>w, <2>0, <3>1 DEF Taking
    <3>3. Held(i, req[c].from)'
      BY <1>d, <1>e, <1>h, <1>w, <1>u, <3>1, <3>2
    <3>4. Counted(c)' /\ fw'.received = req'[c].from
      BY <1>u, <1>h, <1>w, <2>0, <3>1, <3>2, <3>3 DEF Counted, Taking, Joined
    <3>5. HeaderWait(c)'
      BY <2>1, <3>4 DEF HeaderWait
    <3> QED
      BY <1>b, <2>1, <3>1, <3>5
  <2>2. CASE spc' = "base"
    <3>1. req' = req /\ fw.received = HeaderLen /\ booter.img = i
      BY <1>3, <2>0, <2>2 DEF TestHeader, FinishWith, SGoto, Taking
    <3>2. Taking(c)' /\ fw'.received = req'[c].from /\ req'[c].from = HeaderLen
      BY <1>u, <2>0, <3>1 DEF Taking, Joined
    <3>3. HeaderWait(c)'
      BY <1>u, <2>2, <3>1, <3>2 DEF HeaderWait
    <3> QED
      BY <1>b, <2>2, <3>1, <3>3
  <2>3. CASE FinishWith("FIO", "IO")
    BY <1>u, <1>w, <2>3, FinishedOK DEF FinishWith, SGoto
  <2> QED
    BY <1>3, <2>1, <2>2, <2>3 DEF TestHeader, SGoto
<1>4. CASE spc = "base" /\ Store
  <2>1. spc' = "total" /\ req' = req /\ fw' = [fw EXCEPT !.base = Base]
    BY <1>4 DEF Store, SGoto
  <2>2. /\ fw'.received = fw.received /\ fw'.state = fw.state /\ fw'.offset = fw.offset
        /\ fw'.base = Base
    BY <1>f, <2>1 DEF Session
  <2>3. Taking(c) /\ fw.received = req[c].from /\ req[c].from = HeaderLen /\ booter.img = i
    BY <1>4, <1>w DEF WaitInv, HeaderWait
  <2>4. Taking(c)' /\ fw'.received = req'[c].from /\ req'[c].from = HeaderLen
    BY <1>u, <2>1, <2>2, <2>3 DEF Taking, Joined
  <2>5. HeaderWait(c)'
    BY <1>u, <2>1, <2>2, <2>3, <2>4 DEF HeaderWait
  <2> QED
    BY <1>b, <2>1, <2>5
<1>5. CASE spc = "total" /\ Store
  <2>1. spc' = "zero" /\ req' = req /\ fw' = [fw EXCEPT !.total = PayloadLen[booter.img]]
    BY <1>5 DEF Store, SGoto
  <2>2. /\ fw'.received = fw.received /\ fw'.state = fw.state /\ fw'.offset = fw.offset
        /\ fw'.base = fw.base /\ fw'.total = PayloadLen[booter.img]
    BY <1>f, <2>1 DEF Session
  <2>3. /\ Taking(c) /\ fw.received = req[c].from /\ req[c].from = HeaderLen /\ booter.img = i
        /\ fw.base = Base
    BY <1>5, <1>w DEF WaitInv, HeaderWait
  <2>4. Taking(c)' /\ fw'.received = req'[c].from /\ req'[c].from = HeaderLen
    BY <1>u, <2>1, <2>2, <2>3 DEF Taking, Joined
  <2>5. HeaderWait(c)'
    BY <1>u, <2>1, <2>2, <2>3, <2>4 DEF HeaderWait
  <2> QED
    BY <1>b, <2>1, <2>5
<1>6. CASE spc = "zero" /\ Store
  <2>1. spc' = "rest" /\ req' = req /\ fw' = [fw EXCEPT !.updated = 0]
    BY <1>6 DEF Store, SGoto
  <2>2. /\ fw'.received = fw.received /\ fw'.state = fw.state /\ fw'.offset = fw.offset
        /\ fw'.base = fw.base /\ fw'.total = fw.total /\ fw'.updated = 0
    BY <1>f, <2>1 DEF Session
  <2>3. /\ Taking(c) /\ fw.received = req[c].from /\ req[c].from = HeaderLen /\ booter.img = i
        /\ fw.base = Base /\ fw.total = PayloadLen[i]
    BY <1>6, <1>w DEF WaitInv, HeaderWait
  <2>4. Sound(i)' /\ fw'.offset = 0 /\ Joined(c)'
    BY <1>u, <2>1, <2>2, <2>3 DEF Sound, Based, Taking, Joined
  <2>5. Held(i, req[c].from)'
    BY <1>d, <1>e, <1>h, <1>u, <2>1, <2>3
  <2>6. Counted(c)' /\ fw'.received = req'[c].from
    BY <1>h, <1>u, <2>1, <2>2, <2>3, <2>4, <2>5 DEF Counted, Taking
  <2>7. HeaderWait(c)'
    BY <2>1, <2>6 DEF HeaderWait
  <2> QED
    BY <1>b, <2>1, <2>7
<1>7. CASE spc = "rest" /\ Load
  <2>1. spc' = "restset" /\ UNCHANGED <<fw, req>> /\ reg' = fw.received + req[c].len
    BY <1>7, <1>w DEF Load, SGoto
  <2>2. Counted(c) /\ fw.received = req[c].from
    BY <1>7, <1>w DEF WaitInv, HeaderWait
  <2>3. /\ \A j : Sound(j)' = Sound(j)
    BY <1>u, <2>1, ProgressFrame
  <2>4. Counted(c)' /\ reg' = req'[c].next
    BY <1>d, <1>f, <1>u, <2>1, <2>2, <2>3 DEF Counted, Joined
  <2>5. HeaderWait(c)'
    BY <2>1, <2>4 DEF HeaderWait
  <2> QED
    BY <1>b, <2>1, <2>5
<1>8. CASE spc = "restset" /\ Store
  <2>1. spc' = "data" /\ req' = req /\ fw' = [fw EXCEPT !.received = reg]
    BY <1>8 DEF Store, SGoto
  <2>2. /\ fw'.received = reg /\ fw'.state = fw.state /\ fw'.offset = fw.offset
        /\ fw'.base = fw.base /\ fw'.total = fw.total /\ fw'.updated = fw.updated
    BY <1>f, <2>1 DEF Session
  <2>3. Counted(c) /\ reg = req[c].next
    BY <1>8, <1>w DEF WaitInv, HeaderWait
  <2>4. \A j : Sound(j)' = Sound(j)
    BY <1>u, <2>2 DEF Sound, Based
  <2>5. Counted(c)' /\ fw'.received = req'[c].next
    BY <1>d, <1>u, <2>1, <2>2, <2>3, <2>4 DEF Counted, Joined
  <2>6. HeaderWait(c)'
    BY <2>1, <2>5 DEF HeaderWait
  <2> QED
    BY <1>b, <2>1, <2>6
<1>9. CASE TestData
  <2>0. Counted(c) /\ fw.received = req[c].next /\ UNCHANGED fw
    BY <1>9, <1>w DEF WaitInv, HeaderWait, TestData
  <2>p. /\ \A j : Sound(j)' = Sound(j)
        /\ \A j, p : Ready(j, p)' = Ready(j, p)
        /\ \A j, p : Progress(j, p)' = Progress(j, p)
    BY <1>u, <2>0, ProgressFrame
  <2>1. CASE req[c].len = 0
    <3>1. /\ req' = [req EXCEPT ![c].status = "SUCCESS"] /\ spc' = "delete"
      BY <1>9, <1>w, <2>1 DEF TestData, Finish, SGoto
    <3>2. req[c].next = req[c].from /\ req[c].next <= HeaderLen
      BY <1>w, <2>0, <2>1 DEF Counted, Joined
    <3>3. Ready(i, req[c].next)
      BY <1>f, <1>h, <1>w, <2>0, <3>2 DEF Ready, Counted
    <3>4. Held(i, req[c].next)
      BY <1>e, <1>w, <3>2
    <3>5. Progress(i, req[c].next)
      BY <1>h, <1>w, <3>2, <3>3, <3>4 DEF Progress
    <3>6. req'[c].next = req[c].next
      BY <1>w, <3>1, StatusFields
    <3>7. Progress(cl[c].img, req[c].next)'
      BY <1>u, <2>p, <3>5, <3>6
    <3> QED
      BY <1>u, <1>w, <3>1, <3>7, FinishedOK
  <2>2. CASE req[c].len > 0
    <3>1. req' = req /\ spc' = "addr"
      BY <1>9, <1>w, <2>2 DEF TestData, SGoto
    <3>2. Sound(i) /\ req[c].from = HeaderLen + fw.offset /\ Joined(c)
      BY <1>h, <1>w, <2>0, <2>2 DEF Counted
    <3>3. Cut(c)'
      BY <1>u, <2>0, <2>2, <2>p, <3>1, <3>2 DEF Cut, Joined
    <3>4. Held(cl[c].img, req[c].from)'
      BY <1>d, <1>u, <2>0, <3>1 DEF Counted
    <3>5. HeaderWait(c)'
      BY <3>1 DEF HeaderWait
    <3> QED
      BY <1>b, <3>1, <3>3, <3>4, <3>5
  <2> QED
    BY <1>w, <2>1, <2>2
<1> QED
  BY <1>1, <1>2, <1>3, <1>4, <1>5, <1>6, <1>7, <1>8, <1>9 DEF HeaderStepOf

(* The payload goes through the writer.                                    *)
PayloadStepOf ==
    \/ BeginWrite \/ WritePiece \/ TestLast
    \/ spc \in {"addr", "advance", "count"} /\ Load
    \/ spc \in {"advset", "countset"} /\ Store

LEMMA PayloadWork ==
  ASSUME TypeInv, ListInv, UpdateInv, NEW c \in Client, Updating(c), cpc[c] \in {"post", "wait"},
         PayloadStepOf
  PROVE  Asked(c)' /\ WaitInv(c)'
<1> USE DEF flashVars, fwVars, loopVars, workVars, taskVars, clientVars, histVars, boundVars, TaskFrame
<1> DEFINE i == cl[c].img
<1>w. /\ Asked(c) /\ WaitInv(c) /\ i \in Image /\ cl[c].pos \in Nat
      /\ req \in [Client -> Request] /\ req[c] \in Request
      /\ req[c].from \in Nat /\ req[c].len \in Nat /\ req[c].next \in Nat
      /\ cur = c /\ ~req[c].done /\ InList(c)
      /\ PayloadWait(c) /\ req[c].next <= FileLen(i) /\ req[c].img = i
  BY Waiting DEF PayloadStepOf, BeginWrite, WritePiece, TestLast, Serving, Counting, WaitInv, Asked
<1>f. /\ fw \in Session /\ fw.received \in Nat /\ fw.offset \in Nat /\ fw.updated \in Nat
      /\ fw.total \in Nat /\ reg \in Nat
  BY DEF TypeInv, Session
<1>h. HeaderLen \in Nat /\ HeaderLen > 0 /\ FileLen(i) \in Nat /\ FileLen(i) > HeaderLen
      /\ Base \in Nat /\ PayloadLen[i] \in Nat /\ FileLen(i) = HeaderLen + PayloadLen[i]
  BY <1>w, AddrType, FileLenType
<1>u. UNCHANGED <<hdr, runNo, cl, booter, silent>>
  BY DEF PayloadStepOf, BeginWrite, WritePiece, TestLast, Load, Store
<1>k. Cut(c) => /\ Sound(i) /\ fw.received = req[c].next /\ req[c].from = HeaderLen + fw.offset
                /\ req[c].from + req[c].len = req[c].next /\ req[c].len > 0
                /\ fw.base = Base /\ fw.total = PayloadLen[i] /\ fw.updated = fw.offset
  BY DEF Cut, Sound, Based, Joined
<1>l. UNCHANGED <<nor, cache, gsSector>> => \A j, p : Held(j, p)' = Held(j, p)
  BY DEF Held, CellHeld
<1>s. UNCHANGED fw => (\A j : Based(j)' = Based(j) /\ Sound(j)' = Sound(j))
  BY <1>u DEF Based, Sound
<1>m. UNCHANGED <<fw, req>> => Asked(c)' /\ Cut(c)' = Cut(c) /\ Past(c)' = Past(c)
  BY <1>s, <1>u, <1>w DEF Asked, Cut, Past, Joined
<1>b. ASSUME req' = req, PayloadWait(c)',
             spc' \in {"addoffset", "addbase", "piece"} \cup Counting
      PROVE  Asked(c)' /\ WaitInv(c)'
  <2>1. Asked(c)'
    BY <1>b, <1>u, <1>w DEF Asked
  <2>2. HeaderWait(c)'
    BY <1>b DEF HeaderWait, Counting
  <2> QED
    BY <1>b, <1>w, <2>1, <2>2 DEF WaitInv, Idle, Ending, Served, Counting
<1>1. CASE spc = "addr" /\ Load
  <2>1. /\ UNCHANGED <<fw, req, nor, cache, gsSector>>
        /\ \/ spc' = "addoffset" /\ reg' = fw.base
           \/ spc' = "addbase" /\ reg' = fw.offset
    BY <1>1 DEF Load, SGoto
  <2>2. Cut(c) /\ Held(i, req[c].from)
    BY <1>1, <1>w DEF PayloadWait
  <2>3. Cut(c)' /\ Held(cl[c].img, req[c].from)'
    BY <1>l, <1>m, <1>u, <2>1, <2>2
  <2>4. PayloadWait(c)'
    BY <1>k, <2>1, <2>2, <2>3 DEF PayloadWait, Counting
  <2> QED
    BY <1>b, <2>1, <2>4
<1>2. CASE BeginWrite
  <2> DEFINE a == Base + req[c].from - HeaderLen
  <2>h. /\ Cut(c) /\ Held(i, req[c].from) /\ req[c].from >= HeaderLen
        /\ spc \in {"addoffset", "addbase"}
        /\ spc = "addoffset" => reg = Base
        /\ spc = "addbase" => reg = fw.offset
    BY <1>2, <1>k, <1>f, <1>h, <1>w DEF PayloadWait, BeginWrite
  <2>a. WriteAddr = a
    BY <1>f, <1>h, <1>k, <2>h DEF WriteAddr
  <2>1. CASE WriteAddr \notin Addr
    BY <1>2, <1>u, <1>w, <2>1, FinishedOK DEF BeginWrite, FinishWith, SGoto
  <2>2. CASE WriteAddr \in Addr
    <3>1. /\ FastBegin(a, i, req[c].from, req[c].len) /\ spc' = "piece" /\ UNCHANGED <<fw, req>>
      BY <1>2, <1>w, <2>2, <2>a DEF BeginWrite, SGoto
    <3>2. /\ todo'.offset = OffsetOf(a) /\ todo'.src = i /\ todo'.pos = req[c].from
          /\ todo'.len = req[c].len /\ gsSector' = SectorOf(a) /\ cache' = cache
      BY <3>1 DEF FastBegin
    <3>3. Held(i, req[c].from)'
      <4>1. CASE req[c].from = HeaderLen
        BY <1>h, <3>1, <4>1 DEF Held
      <4>2. CASE req[c].from > HeaderLen
        <5>1. gsSector = SectorOf(a)
          BY <2>h, <4>2 DEF Held
        <5>2. nor' = nor /\ gsSector' = gsSector
          BY <3>1, <5>1 DEF FastBegin
        <5> QED
          BY <1>u, <2>h, <3>1, <3>2, <5>2 DEF Held, CellHeld
      <4> QED
        BY <1>h, <1>w, <2>h, <4>1, <4>2
    <3>4. Cut(c)'
      BY <1>m, <2>h, <3>1
    <3>5. /\ gsSector' = SectorOf(Base + todo'.pos - HeaderLen)
          /\ todo'.offset = OffsetOf(Base + todo'.pos - HeaderLen)
          /\ Held(cl[c].img, todo.pos)'
      BY <1>u, <3>1, <3>2, <3>3
    <3>6. todo'.len > 0 /\ req'[c].from <= todo'.pos /\ todo'.pos + todo'.len = req'[c].next
      BY <1>k, <1>w, <2>h, <3>1, <3>2
    <3>7. PayloadWait(c)'
      BY <1>u, <3>1, <3>2, <3>4, <3>5, <3>6 DEF PayloadWait, Counting
    <3> QED
      BY <1>b, <3>1, <3>7
  <2> QED
    BY <2>1, <2>2
<1>3. CASE WritePiece
  <2>1. /\ Cut(c) /\ Held(i, todo.pos) /\ todo.src = i /\ todo.len > 0
        /\ req[c].from <= todo.pos /\ todo.pos + todo.len = req[c].next
        /\ gsSector = SectorOf(Base + todo.pos - HeaderLen)
        /\ todo.offset = OffsetOf(Base + todo.pos - HeaderLen)
    BY <1>3, <1>w DEF WritePiece, PayloadWait
  <2>2. /\ FastPiece /\ UNCHANGED <<fw, req>>
        /\ spc' = IF todo'.len = 0 THEN "advance" ELSE "piece"
    BY <1>3 DEF WritePiece, SGoto
  <2>t. todo.pos \in Nat /\ todo.len \in Nat /\ PieceLen \in Nat /\ PieceLen <= todo.len
    BY PieceTypes DEF TypeInv
  <2>3. HeaderLen <= todo.pos /\ todo.pos + todo.len <= FileLen(i)
    BY <1>f, <1>h, <1>k, <1>w, <2>1, <2>t
  <2>4. PICK j \in Image : j = i
    BY <1>w
  <2>5. /\ Held(j, todo.pos)' /\ gsSector' = SectorOf(Base + todo'.pos - HeaderLen)
        /\ todo'.len > 0 => OffsetOf(Base + todo'.pos - HeaderLen) = 0
    BY <2>1, <2>2, <2>3, <2>4, PieceIsHeld
  <2>6. Held(cl[c].img, todo.pos)'
    BY <1>u, <2>4, <2>5
  <2>7. /\ todo'.len = todo.len - PieceLen /\ todo'.pos = todo.pos + PieceLen
        /\ todo'.offset = 0 /\ todo'.src = todo.src
    BY <2>2, <2>t DEF FastPiece, TypeInv
  <2>8. Cut(c)'
    BY <1>m, <2>1, <2>2
  <2>9. todo'.pos + todo'.len = req[c].next /\ todo'.len \in Nat /\ req[c].from <= todo'.pos
        /\ todo'.pos \in Nat
    BY <1>w, <2>1, <2>7, <2>t
  <2>10. CASE todo'.len = 0
    <3>1. todo'.pos = req'[c].next /\ spc' = "advance"
      BY <1>w, <2>2, <2>9, <2>10
    <3>2. Held(cl[c].img, req[c].next)'
      BY <2>6, <3>1
    <3>3. PayloadWait(c)'
      BY <2>8, <3>1, <3>2 DEF PayloadWait, Counting
    <3> QED
      BY <1>b, <2>2, <3>1, <3>3 DEF Counting
  <2>11. CASE todo'.len > 0
    <3>1. spc' = "piece"
      BY <2>2, <2>11
    <3>2. PayloadWait(c)'
      BY <1>u, <2>1, <2>2, <2>5, <2>6, <2>7, <2>8, <2>9, <2>11, <3>1 DEF PayloadWait, Counting
    <3> QED
      BY <1>b, <2>2, <3>1, <3>2
  <2> QED
    BY <2>9, <2>10, <2>11
<1>4. CASE spc = "advance" /\ Load
  <2>1. /\ UNCHANGED <<fw, req, nor, cache, gsSector>> /\ spc' = "advset"
        /\ reg' = fw.offset + req[c].len
    BY <1>4, <1>w DEF Load, SGoto
  <2>2. Cut(c) /\ Held(i, req[c].next)
    BY <1>4, <1>w DEF PayloadWait, Counting
  <2>3. Cut(c)' /\ Held(cl[c].img, req[c].next)' /\ reg' = req'[c].next - HeaderLen
    BY <1>f, <1>h, <1>k, <1>l, <1>m, <1>u, <1>w, <2>1, <2>2
  <2>4. PayloadWait(c)'
    BY <2>1, <2>3 DEF PayloadWait, Counting
  <2> QED
    BY <1>b, <2>1, <2>4 DEF Counting
<1>5. CASE spc = "advset" /\ Store
  <2>1. /\ UNCHANGED <<req, nor, cache, gsSector>> /\ spc' = "count"
        /\ fw' = [fw EXCEPT !.offset = reg]
    BY <1>5 DEF Store, SGoto
  <2>2. /\ fw'.received = fw.received /\ fw'.state = fw.state /\ fw'.offset = reg
        /\ fw'.base = fw.base /\ fw'.total = fw.total /\ fw'.updated = fw.updated
    BY <1>f, <2>1 DEF Session
  <2>3. Cut(c) /\ Held(i, req[c].next) /\ reg = req[c].next - HeaderLen
    BY <1>5, <1>w DEF PayloadWait, Counting
  <2>4. Based(cl[c].img)'
    BY <1>u, <2>2, <2>3 DEF Cut, Sound, Based
  <2>5. Past(c)' /\ fw'.updated + req'[c].len = fw'.offset
    BY <1>f, <1>h, <1>k, <1>u, <1>w, <2>1, <2>2, <2>3, <2>4 DEF Past, Joined
  <2>6. Held(cl[c].img, req[c].next)'
    BY <1>l, <1>u, <2>1, <2>3
  <2>7. PayloadWait(c)'
    BY <2>1, <2>5, <2>6 DEF PayloadWait, Counting
  <2> QED
    BY <1>b, <2>1, <2>7 DEF Counting
<1>6. CASE spc = "count" /\ Load
  <2>1. /\ UNCHANGED <<fw, req, nor, cache, gsSector>> /\ spc' = "countset"
        /\ reg' = fw.updated + req[c].len
    BY <1>6, <1>w DEF Load, SGoto
  <2>2. Past(c) /\ Held(i, req[c].next) /\ fw.updated + req[c].len = fw.offset
    BY <1>6, <1>w DEF PayloadWait, Counting
  <2>3. Past(c)' /\ Held(cl[c].img, req[c].next)' /\ reg' = fw'.offset
    BY <1>l, <1>m, <1>u, <2>1, <2>2
  <2>4. PayloadWait(c)'
    BY <2>1, <2>3 DEF PayloadWait, Counting
  <2> QED
    BY <1>b, <2>1, <2>4 DEF Counting
<1>7. CASE spc = "countset" /\ Store
  <2>1. /\ UNCHANGED <<req, nor, cache, gsSector>> /\ spc' = "last"
        /\ fw' = [fw EXCEPT !.updated = reg]
    BY <1>7 DEF Store, SGoto
  <2>2. /\ fw'.received = fw.received /\ fw'.state = fw.state /\ fw'.offset = fw.offset
        /\ fw'.base = fw.base /\ fw'.total = fw.total /\ fw'.updated = reg
    BY <1>f, <2>1 DEF Session
  <2>3. Past(c) /\ Held(i, req[c].next) /\ reg = fw.offset
    BY <1>7, <1>w DEF PayloadWait, Counting
  <2>4. Past(c)' /\ fw'.updated = fw'.offset
    BY <1>u, <2>1, <2>2, <2>3 DEF Past, Based, Joined
  <2>5. Held(cl[c].img, req[c].next)'
    BY <1>l, <1>u, <2>1, <2>3
  <2>6. PayloadWait(c)'
    BY <2>1, <2>4, <2>5 DEF PayloadWait, Counting
  <2> QED
    BY <1>b, <2>1, <2>6 DEF Counting
<1>8. CASE TestLast
  <2>1. UNCHANGED <<fw, nor, cache, gsSector>>
    BY <1>8 DEF TestLast
  <2>2. Past(c) /\ Held(i, req[c].next) /\ fw.updated = fw.offset
    BY <1>8, <1>w DEF TestLast, PayloadWait, Counting
  <2>3. /\ Based(i) /\ fw.total = PayloadLen[i] /\ booter.img = i /\ req[c].next = HeaderLen + fw.offset
        /\ fw.received = req[c].next /\ fw.state \cap Bad = {}
    BY <2>2 DEF Past, Based
  <2>4. CASE AllWritten
    <3>1. spc' = "destroy" /\ req' = req
      BY <1>8, <2>4 DEF TestLast, SGoto, AfterLast
    <3>2. req[c].next = FileLen(i)
      BY <1>f, <1>h, <1>w, <2>2, <2>3, <2>4 DEF AllWritten
    <3>3. HeaderWait(c)' /\ PayloadWait(c)'
      BY <3>1 DEF HeaderWait, PayloadWait, Counting
    <3>4. Asked(c)'
      BY <1>m, <2>1, <3>1
    <3> QED
      BY <1>u, <1>w, <2>3, <3>1, <3>2, <3>3, <3>4 DEF WaitInv, Idle, Ending, Served
  <2>5. CASE ~AllWritten
    <3>1. spc' = "delete" /\ req' = [req EXCEPT ![c].status = "SUCCESS"]
      BY <1>8, <1>w, <2>5 DEF TestLast, Finish, SGoto
    <3>2. req'[c].next = req[c].next
      BY <1>w, <3>1, StatusFields
    <3>3. req[c].next < FileLen(i) /\ req[c].next >= HeaderLen
      BY <1>f, <1>h, <1>w, <2>2, <2>3, <2>5 DEF AllWritten
    <3>4. Ready(i, req[c].next)
      BY <1>f, <1>h, <1>w, <2>2, <2>3, <3>3 DEF Ready, Sound
    <3>5. Progress(i, req[c].next)
      BY <2>2, <3>3, <3>4 DEF Progress
    <3>6. \A j, p : Progress(j, p)' = Progress(j, p)
      BY <1>u, <2>1, ProgressFrame
    <3>7. Progress(cl[c].img, req[c].next)'
      BY <1>u, <3>2, <3>5, <3>6
    <3> QED
      BY <1>u, <1>w, <3>1, <3>7, FinishedOK
  <2> QED
    BY <2>4, <2>5
<1> QED
  BY <1>1, <1>2, <1>3, <1>4, <1>5, <1>6, <1>7, <1>8 DEF PayloadStepOf

(* The end of the update.                                                  *)
EndStepOf ==
    \/ Destroy \/ BeginVerify \/ VerifyBlock \/ EndVerify
    \/ NumberHeader \/ EraseHeader \/ HeaderNoMem \/ ProgramHeader

LEMMA EndWork ==
  ASSUME TypeInv, ListInv, HeaderInv, UpdateInv,
         NEW c \in Client, Updating(c), cpc[c] \in {"post", "wait"}, EndStepOf
  PROVE  Asked(c)' /\ WaitInv(c)'
<1> USE DEF flashVars, fwVars, loopVars, workVars, taskVars, clientVars, histVars, boundVars, TaskFrame
<1> DEFINE i == cl[c].img
<1>e. spc \in Ending
  BY DEF EndStepOf, Destroy, BeginVerify, VerifyBlock, EndVerify, NumberHeader, EraseHeader,
         HeaderNoMem, ProgramHeader, Ending
<1>w. /\ Asked(c) /\ WaitInv(c) /\ i \in Image /\ cl[c].pos \in Nat
      /\ req \in [Client -> Request] /\ req[c] \in Request
      /\ cur = c /\ ~req[c].done /\ InList(c)
      /\ booter.img = i /\ req[c].next = FileLen(i)
  BY <1>e, Waiting DEF Serving, WaitInv
<1>u. UNCHANGED <<runNo, cl>>
  BY DEF EndStepOf, Destroy, BeginVerify, VerifyBlock, EndVerify, NumberHeader, EraseHeader,
         HeaderNoMem, ProgramHeader
<1>b. ASSUME req' = req, booter'.img = booter.img, spc' \in Ending
      PROVE  Asked(c)' /\ WaitInv(c)'
  <2>1. Asked(c)'
    BY <1>b, <1>u, <1>w DEF Asked
  <2>2. HeaderWait(c)' /\ PayloadWait(c)'
    BY <1>b DEF HeaderWait, PayloadWait, Counting, Ending
  <2> QED
    BY <1>b, <1>u, <1>w, <2>1, <2>2 DEF WaitInv, Idle, Ending, Served
<1>1. CASE FinishWith("FMEM", "MEM") \/ FinishWith("FCRC", "CRC")
  <2>1. PICK s \in {"FMEM", "FCRC"} : req' = [req EXCEPT ![c].status = s] /\ spc' = "flag"
    BY <1>1, <1>w DEF FinishWith, SGoto
  <2> QED
    BY <1>u, <1>w, <2>1, FinishedOK
<1>2. CASE /\ Destroy \/ BeginVerify \/ VerifyBlock \/ EndVerify
           /\ ~FinishWith("FMEM", "MEM") /\ ~FinishWith("FCRC", "CRC")
  BY <1>2, <1>b, <1>e DEF Destroy, BeginVerify, VerifyBlock, EndVerify, SGoto, Ending
<1>3. CASE NumberHeader
  <2>1. booter'.img = booter.img
    BY <1>3 DEF NumberHeader, TypeInv, Header
  <2> QED
    BY <1>3, <1>b, <2>1 DEF NumberHeader, SGoto, Ending
<1>4. CASE EraseHeader
  BY <1>4, <1>b DEF EraseHeader, SGoto, Ending
<1>5. CASE HeaderNoMem \/ ProgramHeader
  <2>1. req' = [req EXCEPT ![c].status = "SUCCESS"] /\ spc' = "flag"
    BY <1>5, <1>w DEF HeaderNoMem, ProgramHeader, FinishWith, SGoto
  <2>2. silent' \/ (hdr'.img = i /\ hdr'.no > runNo')
    BY <1>5, <1>u, <1>w DEF HeaderNoMem, ProgramHeader, HeaderInv
  <2>3. req'[c].next = FileLen(i) /\ ~(FileLen(i) < FileLen(i))
    BY <1>w, <2>1, StatusFields, FileLenType
  <2>4. Progress(cl[c].img, req[c].next)'
    BY <1>u, <2>2, <2>3 DEF Progress
  <2> QED
    BY <1>u, <1>w, <2>1, <2>4, FinishedOK
<1> QED
  BY <1>1, <1>2, <1>3, <1>4, <1>5 DEF EndStepOf

(* Any step of the task short of the reset.                                *)
LEMMA TaskFrameStep ==
  ASSUME TypeInv, FwupTask, ~SystemReset
  PROVE  UNCHANGED <<cl, cpc>> /\ fw'.busy = fw.busy /\ fw'.sid = fw.sid
<1>1. fw \in Session
  BY DEF TypeInv
<1>2. UNCHANGED <<cl, cpc>>
  BY DEF FwupTask, Receive, SetBusy, FirstRequest, TakeRequest, TestHeader, Load, Store, TestData,
         BeginWrite, WritePiece, TestLast, Destroy, BeginVerify, VerifyBlock, EndVerify,
         NumberHeader, EraseHeader, HeaderNoMem, ProgramHeader, SetFlag, DeleteRequest, TestBusy,
         ClearBusy, Complete, NextRequest, TaskFrame, clientVars
<1>3. fw'.busy = fw.busy /\ fw'.sid = fw.sid
  BY <1>1
  DEF FwupTask, Receive, SetBusy, FirstRequest, TakeRequest, TestHeader, Load, Store, TestData,
      BeginWrite, WritePiece, TestLast, Destroy, BeginVerify, VerifyBlock, EndVerify,
      NumberHeader, EraseHeader, HeaderNoMem, ProgramHeader, SetFlag, DeleteRequest, TestBusy,
      ClearBusy, Complete, NextRequest, fwVars, Session
<1> QED
  BY <1>2, <1>3

(* The places the steps at work on a request start from.                   *)
LEMMA WorkPlaces ==
  ASSUME FwupTask, ~SystemReset, spc \notin Serving \cup Served \cup {"busy"}
  PROVE  Receive \/ FirstRequest \/ NextRequest
<1>1. ~ServingStep
  BY ServingStays
<1>2. ~TakeRequest /\ ~DeleteRequest /\ ~TestBusy /\ ~ClearBusy /\ ~Complete /\ ~SetBusy
  BY DEF TakeRequest, DeleteRequest, TestBusy, ClearBusy, Complete, SetBusy, Serving, Served
<1> QED
  BY <1>1, <1>2 DEF FwupTask, ServingStep

LEMMA TaskStep ==
  ASSUME TypeInv, ListInv, HeaderInv, UpdateInv, NEW c \in Client, Updating(c),
         FwupTask, ~SystemReset
  PROVE  ClientOK(c)'
<1> USE DEF flashVars, fwVars, loopVars, workVars, taskVars, clientVars, histVars, boundVars
<1>0. ClientOK(c)
  BY DEF UpdateInv
<1>1. cl' = cl /\ cpc' = cpc /\ fw'.busy = fw.busy /\ fw'.sid = fw.sid
  BY TaskFrameStep
<1>3. CASE cpc[c] \in {"post", "wait"}
  <2>1. Load => HeaderStepOf \/ PayloadStepOf
    BY DEF Load, HeaderStepOf, PayloadStepOf
  <2>2. Store => HeaderStepOf \/ PayloadStepOf
    BY DEF Store, HeaderStepOf, PayloadStepOf
  <2>3. Asked(c)' /\ WaitInv(c)'
    BY <1>3, <2>1, <2>2, ListWork, TakeWork, HeaderWork, PayloadWork, EndWork
    DEF FwupTask, HeaderStepOf, PayloadStepOf, EndStepOf
  <2> QED
    BY <1>0, <1>1, <1>3, <2>3 DEF ClientOK
<1>4. CASE cpc[c] \notin {"post", "wait"}
  <2>1. spc \notin Serving \cup Served \cup {"busy"} /\ \A d : ~InList(d)
    BY <1>4, Alone DEF Unanswered
  <2>2. wait = <<>>
    <3>1. wait \in Seq(Client) /\ ~InList(wait[1])
      BY <2>1 DEF TypeInv
    <3> QED
      BY <3>1 DEF InList
  <2>4. /\ Receive \/ FirstRequest \/ NextRequest
        /\ UNCHANGED <<flashVars, hdr, runNo, fw, booter, wait, req, silent>>
    BY <2>1, <2>2, WorkPlaces DEF Receive, FirstRequest, NextRequest
  <2>5. /\ \A i, p : Progress(i, p)' = Progress(i, p)
    BY <2>4, ProgressFrame
  <2>6. Asked(c)' = Asked(c) /\ Fresh(c)' = Fresh(c)
    BY <1>1, <2>4 DEF Asked, Fresh, Joined
  <2> QED
    BY <1>0, <1>1, <1>4, <2>5, <2>6 DEF ClientOK
<1> QED
  BY <1>3, <1>4

LEMMA UpdateStep ==
  ASSUME TypeInv, ListInv, HeaderInv, UpdateInv, [Next]_vars
  PROVE  UpdateInv'
<1> USE DEF flashVars, fwVars, loopVars, workVars, taskVars, clientVars, histVars, boundVars
<1>t. cl \in [Client -> ClientData] /\ cpc = [d \in Client |-> cpc[d]]
  BY DEF TypeInv
<1>1. CASE SystemReset \/ PowerLoss
  <2>1. \A c \in Client : cpc'[c] = "idle"
    BY <1>1 DEF SystemReset, PowerLoss, Reboot
  <2> QED
    BY <2>1 DEF UpdateInv, Updating
<1>2. CASE UNCHANGED vars
  <2>1. \A c \in Client : Updating(c)' = Updating(c) /\ Aloof(c)' = Aloof(c)
    BY <1>2 DEF vars, Updating, Aloof
  <2>2. \A c \in Client : ClientOK(c) => ClientOK(c)'
    BY <1>2, ClientFrame DEF vars
  <2> QED
    BY <1>2, <2>1, <2>2 DEF UpdateInv, vars
<1>3. CASE FwupTask /\ ~SystemReset
  <2>1. cl' = cl /\ cpc' = cpc
    BY <1>3, TaskFrameStep
  <2>2. \A c \in Client : Updating(c)' = Updating(c) /\ Aloof(c)' = Aloof(c)
    BY <2>1 DEF Updating, Aloof
  <2>3. \A c \in Client : Updating(c) => ClientOK(c)'
    BY <1>3, TaskStep
  <2> QED
    BY <2>1, <2>2, <2>3 DEF UpdateInv
<1>4. ASSUME NEW d \in Client, ClientStep(d) \/ ClientCall(d)
      PROVE  UpdateInv'
  <2>1. ASSUME NEW c \in Client, cpc'[c] = "enter"
        PROVE  cl'[c].pos = 0 /\ cl'[c].img \in Image
    <3>1. CASE \E i \in Files[d] : EnterCheck(d, i) /\ c = d
      <4>1. Files[d] \subseteq Image
        BY FwUpAssumption
      <4> QED
        BY <1>t, <3>1, <4>1 DEF EnterCheck, NewClient
    <3>2. CASE cpc[c] = "enter" /\ cl'[c] \in {cl[c], [cl[c] EXCEPT !.clean = FALSE]}
      <4>1. cl[c] \in ClientData
        BY <1>t
      <4>2. cl[c].pos = 0 /\ cl[c].img \in Image
        BY <3>2 DEF UpdateInv
      <4> QED
        BY <3>2, <4>1, <4>2 DEF ClientData
    <3>3. CASE ClientStep(d)
      BY <1>t, <2>1, <3>2, <3>3
      DEF ClientStep, EnterSet, AppendRequest, WakeOf, PostMessage, TakeAnswer, ExitSet, Answered, Goto
    <3>4. CASE ClientCall(d)
      <4>1. CASE \E n \in Chunk : Send(d, n)
        BY <1>t, <2>1, <3>2, <4>1 DEF Send, Answered, Goto
      <4>2. CASE ExitCheck(d)
        BY <1>t, <2>1, <3>2, <4>2 DEF ExitCheck, Goto
      <4>3. CASE \E i \in Files[d] : EnterCheck(d, i)
        BY <1>t, <2>1, <3>1, <3>2, <4>3 DEF EnterCheck, Goto
      <4> QED
        BY <3>4, <4>1, <4>2, <4>3 DEF ClientCall
    <3> QED
      BY <1>4, <3>3, <3>4
  <2>2. ASSUME NEW c \in Client, Updating(c)'
        PROVE  ClientOK(c)' /\ \A o \in Client \ {c} : Aloof(o)'
    <3>1. CASE c = d
      BY <1>4, <2>2, <3>1, OwnStep
    <3>2. CASE c # d
      <4>1. d \in Client \ {c}
        BY <3>2
      <4>2. /\ ClientOK(c)' /\ Aloof(d)' /\ \A o \in Client \ {c, d} : Aloof(o)' = Aloof(o)
            /\ Updating(c)
        BY <1>4, <2>2, <4>1, OtherStep
      <4> QED
        BY <4>2 DEF UpdateInv
    <3> QED
      BY <3>1, <3>2
  <2> QED
    BY <2>1, <2>2 DEF UpdateInv
<1> QED
  BY <1>1, <1>2, <1>3, <1>4 DEF Next

-----------------------------------------------------------------------------
(* The theorems                                                            *)

LEMMA InitInv == Init => IInv
<1> SUFFICES ASSUME Init
             PROVE  IInv
  OBVIOUS
<1>1. TypeInv
  <2>1. NoWrite \in [offset : Offset, src : Image \cup {None, Junk}, pos : Nat, len : Nat]
    BY FlashAssumption DEF NoWrite, Offset
  <2>2. <<>> \in Seq(Client)
    OBVIOUS
  <2> QED
    BY <2>1, <2>2, ClientTypes, FwUpAssumption DEF Init, FlashInit, TypeInv, Cell, Idle, NoCrc
<1>2. ListInv
  BY DEF Init, ListInv, DoneOK, NoRequest, Serving, Served, Idle, Counting, Ending
<1>3. BusyInv /\ HeaderInv
  BY DEF Init, BusyInv, HeaderInv, NoSession, BadHeader, Newer, Between, Ending
<1>4. UpdateInv
  BY DEF Init, UpdateInv, Updating
<1> QED
  BY <1>1, <1>2, <1>3, <1>4 DEF IInv

(* Every step of the sources, of the fwup task and of the power supply     *)
(* keeps the inductive invariant.                                          *)
LEMMA Invariance == Spec => []IInv
<1>1. IInv /\ [Next]_vars => IInv'
  BY TypeStep, ListStep, BusyStep, HeaderStep, UpdateStep DEF IInv
<1> QED
  BY <1>1, InitInv, PTL DEF Spec

(* For any set of sources, images and requests, the state of the firmware  *)
(* update stays within its types: in particular the message count within   *)
(* the queue, and the task's loop variables among the sources.             *)
THEOREM TypeCorrect == Spec => []TypeOK
<1>1. IInv => TypeOK
  BY DEF IInv, TypeInv, TypeOK, Header, Session, Request
<1> QED
  BY <1>1, Invariance, PTL

(* tls_fwup_img_update_header is only reached, and an update header newer  *)
(* than the running image only ever present, with the whole image it       *)
(* announces in the update area: whatever the sources send, between        *)
(* whichever accesses of the task to the session they open and close it,   *)
(* and wherever memory or power fails.  The two gaps left out are those    *)
(* of Between, in which the code announces what it verified elsewhere.     *)
THEOREM HeaderAnnouncesImage == Spec => []HeaderMeansImage
<1>1. IInv => HeaderMeansImage
  BY DEF IInv, HeaderInv, HeaderMeansImage, Newer
<1> QED
  BY <1>1, Invariance, PTL

(* request_finish clears BUSY with the last request of the list: the task  *)
(* never waits for a message with the flag set and the list empty.         *)
THEOREM BusyOnlyWithWork == Spec => []BusyMeansWork
<1>1. IInv => BusyMeansWork
  BY DEF IInv, BusyInv, BusyMeansWork
<1> QED
  BY <1>1, Invariance, PTL

(* Every payload cell that tls_fwup_request_sync acknowledged to a network *)
(* updater with the session to itself is in the flash or in the cache of   *)
(* the sector it belongs to, however the file is cut into requests.        *)
THEOREM AcknowledgedIsHeld == Spec => []AckedIsHeld
<1>1. ASSUME IInv, NEW c \in Socket, cache # NoCache, cpc[c] = "send", cl[c].clean, cl[c].ok,
             NEW p \in HeaderLen .. cl[c].pos - 1
      PROVE  LET a == Base + p - HeaderLen
             IN  \/ nor[a] = <<cl[c].img, p>>
                 \/ SectorOf(a) = gsSector /\ CacheAt(OffsetOf(a)) = <<cl[c].img, p>>
  <2>1. c \in Client /\ Updating(c)
    BY <1>1 DEF Updating, Client
  <2>2. Progress(cl[c].img, cl[c].pos) /\ cl[c].pos < FileLen(cl[c].img)
    BY <1>1, <2>1 DEF IInv, UpdateInv, ClientOK
  <2>3. CellHeld(cl[c].img, p)
    BY <1>1, <2>2 DEF Progress, Held
  <2> QED
    BY <1>1, <2>3 DEF CellHeld, CacheAt
<1>2. IInv => AckedIsHeld
  BY <1>1 DEF AckedIsHeld
<1> QED
  BY <1>2, Invariance, PTL

(* A network updater that had the session to itself and got OK for every   *)
(* piece of its file finds its image announced to the boot loader, with a  *)
(* number higher than the one of the running image; or memory ran out in   *)
(* tls_fwup_img_update_header, the one failure that is answered with OK.   *)
THEOREM AllOkUpdated == Spec => []AllOkMeansUpdated
<1>1. ASSUME IInv, NEW c \in Socket, cpc[c] = "exit", cl[c].clean, cl[c].ok, ~silent
      PROVE  hdr.img = cl[c].img /\ hdr.no > runNo
  <2>1. c \in Client /\ Updating(c)
    BY <1>1 DEF Updating, Client
  <2>2. Progress(cl[c].img, FileLen(cl[c].img)) /\ cl[c].img \in Image
    BY <1>1, <2>1 DEF IInv, UpdateInv, ClientOK
  <2>3. ~(FileLen(cl[c].img) < FileLen(cl[c].img))
    BY <2>2, FileLenType
  <2> QED
    BY <1>1, <2>2, <2>3 DEF Progress
<1>2. IInv => AllOkMeansUpdated
  BY <1>1 DEF AllOkMeansUpdated
<1> QED
  BY <1>2, Invariance, PTL

-----------------------------------------------------------------------------
(* The update area                                                         *)

(* Requests come from network updaters that have the session to            *)
(* themselves.                                                             *)
EachAlone == \A c \in Client : cpc[c] \in {"post", "wait"} => c \in Socket /\ cl[c].clean

(* The area is made of whole sectors, and no image fills it to its end.    *)
Area == SectorOf(Base) .. SectorOf(UserStart) - 1
WholeSectors ==
    /\ Base = SectorSize * SectorOf(Base) /\ UserStart = SectorSize * SectorOf(UserStart)
    /\ \A i \in Image : Base + PayloadLen[i] < UserStart

(* The writer's sector, which outlives the session and the cache and is    *)
(* flushed when another sector is addressed, is one of the area.           *)
SectorInv ==
    /\ gsSector # 0 => gsSector \in Area
    /\ spc \in {"piece", "destroy"} \cup Counting => gsSector # 0
Writing == {"piece"} \cup Counting
Going == {"enter", "send", "append", "post", "wait"}
OkInv == \A c \in Socket : cpc[c] \in Going => cl[c].ok
AreaInv == SectorInv /\ OkInv

LEMMA AreaSectors ==
  ASSUME WholeSectors, NEW a \in Nat
  PROVE  /\ Base <= a /\ a < UserStart => SectorOf(a) \in Area /\ SectorOf(a) # 0
         /\ SectorOf(a) \in Area => a \in Base .. UserStart - 1
<1> DEFINE q == SectorOf(a)
           r == OffsetOf(a)
           b == SectorOf(Base)
           u == SectorOf(UserStart)
<1>1. /\ q \in Nat /\ b \in Nat /\ u \in Nat /\ r \in Nat /\ r < SectorSize
      /\ a = SectorSize * q + r /\ Base = SectorSize * b /\ UserStart = SectorSize * u
      /\ SectorSize \in Nat /\ SectorSize > 0 /\ b > 0
  <2>1. /\ q \in Nat /\ r \in Offset /\ a = SectorSize * q + r
    BY Division
  <2>2. b \in Nat /\ u \in Nat
    BY AddrType, Division
  <2>3. Base = SectorSize * b /\ UserStart = SectorSize * u
    BY DEF WholeSectors
  <2>4. b > 0
    BY FwUpAssumption
  <2>5. SectorSize \in Nat /\ SectorSize > 0
    BY AddrType
  <2> HIDE DEF q, r, b, u
  <2> QED
    BY <2>1, <2>2, <2>3, <2>4, <2>5 DEF Offset
<1> HIDE DEF q, r, b, u
<1>2. q < b => a < Base
  <2> SUFFICES ASSUME q < b PROVE a < Base
    OBVIOUS
  <2>1. SectorSize * (q + 1) <= SectorSize * b
    BY <1>1
  <2> QED
    BY <1>1, <2>1
<1>3. q >= b => a >= Base
  <2> SUFFICES ASSUME q >= b PROVE a >= Base
    OBVIOUS
  <2>1. SectorSize * q >= SectorSize * b
    BY <1>1
  <2> QED
    BY <1>1, <2>1
<1>4. q >= u => a >= UserStart
  <2> SUFFICES ASSUME q >= u PROVE a >= UserStart
    OBVIOUS
  <2>1. SectorSize * q >= SectorSize * u
    BY <1>1
  <2> QED
    BY <1>1, <2>1
<1>5. q < u => a < UserStart
  <2> SUFFICES ASSUME q < u PROVE a < UserStart
    OBVIOUS
  <2>1. SectorSize * (q + 1) <= SectorSize * u
    BY <1>1
  <2> QED
    BY <1>1, <2>1
<1>6. Base \in Nat /\ UserStart \in Nat
  BY AddrType
<1>7. Base <= a /\ a < UserStart => q \in b .. u - 1 /\ q # 0
  BY <1>1, <1>2, <1>4, <1>6
<1>8. q \in b .. u - 1 => a \in Base .. UserStart - 1
  BY <1>1, <1>3, <1>5, <1>6
<1> QED
  BY <1>7, <1>8 DEF Area, q, b, u

(* The request in the hands of the task is one of an updater all of whose  *)
(* pieces were answered OK.                                                *)
LEMMA ServedAlone ==
  ASSUME IInv, OkInv, EachAlone, spc \in Serving
  PROVE  /\ cur \in Client /\ Updating(cur) /\ Asked(cur) /\ WaitInv(cur) /\ cl[cur].img \in Image
         /\ req[cur].from \in Nat /\ req[cur].len \in Nat /\ req[cur].next \in Nat
         /\ req[cur].next <= HeaderLen + PayloadLen[cl[cur].img]
<1>1. cur \in Client /\ InList(cur)
  BY DEF IInv, ListInv, InList, TypeInv
<1>2. Unanswered(cur)
  BY <1>1 DEF IInv, ListInv, InList
<1>3. Updating(cur) /\ cpc[cur] \in {"post", "wait"}
  BY <1>1, <1>2 DEF Unanswered, EachAlone, OkInv, Going, Updating
<1>4. /\ Asked(cur) /\ WaitInv(cur) /\ cl[cur].img \in Image
      /\ req[cur].from \in Nat /\ req[cur].len \in Nat /\ req[cur].next \in Nat
  BY <1>1, <1>3, Waiting DEF IInv
<1> QED
  BY <1>1, <1>3, <1>4, FileLenType DEF Asked

(* While it is written, the sector is the one of the next cell.            *)
LEMMA WritingSector ==
  ASSUME WholeSectors
  PROVE  IInv /\ OkInv /\ EachAlone /\ spc \in Writing => gsSector \in Area /\ gsSector # 0
<1> SUFFICES ASSUME IInv, OkInv, EachAlone, spc \in Writing
             PROVE  gsSector \in Area /\ gsSector # 0
  OBVIOUS
<1>1. /\ Asked(cur) /\ WaitInv(cur) /\ cl[cur].img \in Image
      /\ req[cur].from \in Nat /\ req[cur].len \in Nat /\ req[cur].next \in Nat
      /\ req[cur].next <= HeaderLen + PayloadLen[cl[cur].img]
  BY ServedAlone DEF Serving, Writing
<1>2. /\ Base \in Nat /\ HeaderLen \in Nat /\ PayloadLen[cl[cur].img] \in Nat
      /\ Base + PayloadLen[cl[cur].img] < UserStart /\ UserStart \in Nat
  BY <1>1, AddrType DEF WholeSectors
<1>3. fw.offset \in Nat /\ todo.pos \in Nat /\ todo.len \in Nat
  BY DEF IInv, TypeInv, Session
<1>4. PayloadWait(cur)
  BY <1>1 DEF WaitInv
<1>5. req[cur].from >= HeaderLen /\ req[cur].next > HeaderLen
  <2>1. Cut(cur) \/ Past(cur)
    BY <1>4 DEF PayloadWait, Writing, Counting
  <2> QED
    BY <1>1, <1>2, <1>3, <2>1 DEF Cut, Past, Joined
<1>6. \E p \in Nat : /\ HeaderLen <= p /\ p <= req[cur].next
                     /\ gsSector = SectorOf(Base + p - HeaderLen)
  <2>1. CASE spc = "piece"
    <3>1. /\ gsSector = SectorOf(Base + todo.pos - HeaderLen)
          /\ req[cur].from <= todo.pos /\ todo.pos + todo.len = req[cur].next
      BY <1>4, <2>1 DEF PayloadWait
    <3>2. HeaderLen <= todo.pos /\ todo.pos <= req[cur].next
      BY <1>1, <1>2, <1>3, <1>5, <3>1
    <3> QED
      BY <1>3, <3>1, <3>2
  <2>2. CASE spc \in Counting
    <3>1. gsSector = SectorOf(Base + req[cur].next - HeaderLen)
      BY <1>4, <1>5, <2>2 DEF PayloadWait, Held
    <3> QED
      BY <1>1, <1>2, <1>5, <3>1
  <2> QED
    BY <2>1, <2>2 DEF Writing
<1>7. PICK p \in Nat : HeaderLen <= p /\ p <= req[cur].next /\ gsSector = SectorOf(Base + p - HeaderLen)
  BY <1>6
<1>8. /\ Base + p - HeaderLen \in Nat /\ Base <= Base + p - HeaderLen
      /\ Base + p - HeaderLen < UserStart
  BY <1>1, <1>2, <1>7
<1> QED
  BY <1>7, <1>8, AreaSectors

LEMMA WritingSectorNext ==
  ASSUME WholeSectors
  PROVE  (IInv /\ OkInv /\ EachAlone /\ spc \in Writing => gsSector \in Area /\ gsSector # 0)'
<1>1. IInv /\ OkInv /\ EachAlone /\ spc \in Writing => gsSector \in Area /\ gsSector # 0
  BY WritingSector
<1> QED
  BY <1>1, PTL

(* The answer of a piece is OK, or the updater gives up.                   *)
LEMMA OkStep ==
  ASSUME IInv, OkInv, [Next]_vars
  PROVE  OkInv'
<1> USE DEF clientVars, Going
<1>t. /\ cl \in [Client -> ClientData] /\ cpc = [d \in Client |-> cpc[d]]
      /\ Socket \subseteq Client /\ \A d \in Client : cl[d] \in ClientData
  BY DEF IInv, TypeInv, Client
<1>1. CASE SystemReset \/ PowerLoss
  BY <1>1, <1>t DEF SystemReset, PowerLoss, Reboot, OkInv
<1>2. ASSUME UNCHANGED <<cl, cpc>>
      PROVE  OkInv'
  BY <1>2 DEF OkInv
<1>3. CASE FwupTask /\ ~SystemReset
  BY <1>2, <1>3, TaskFrameStep DEF IInv
<1>4. ASSUME NEW d \in Client, NEW c \in Socket, cpc'[c] \in Going,
             ClientStep(d) \/ ClientCall(d)
      PROVE  cl'[c].ok
  <2>0. c \in Client /\ cl[c] \in ClientData
    BY <1>t
  <2>1. ASSUME cl'[c] \in {cl[c], [cl[c] EXCEPT !.clean = FALSE]},
               cpc[c] \in Going
        PROVE  cl'[c].ok
    BY <2>0, <2>1 DEF OkInv, ClientData
  <2>2. ASSUME NEW pos, NEW ok \in BOOLEAN, Answered(d, pos, ok),
               d = c => cpc[c] \in Going
        PROVE  cl'[c].ok
    <3>1. CASE d = c
      <4>1. ok
        BY <1>4, <1>t, <2>0, <2>2, <3>1 DEF Answered, Goto
      <4>2. cl'[c] = [cl[c] EXCEPT !.pos = pos, !.ok = @ /\ ok]
        BY <1>t, <2>0, <2>2, <3>1 DEF Answered
      <4>3. cl[c].ok
        BY <2>2, <3>1 DEF OkInv
      <4> QED
        BY <2>0, <4>1, <4>2, <4>3 DEF ClientData
    <3>2. CASE d # c
      <4>1. cl'[c] = cl[c] /\ cpc'[c] = cpc[c]
        BY <1>t, <2>0, <2>2, <3>2 DEF Answered, Goto
      <4> QED
        BY <1>4, <2>1, <4>1
    <3> QED
      BY <3>1, <3>2
  <2>3. CASE \E i \in Files[d] : EnterCheck(d, i)
    <3>1. PICK i \in Files[d] : EnterCheck(d, i)
      BY <2>3
    <3>2. CASE d = c
      BY <1>t, <2>0, <3>1, <3>2 DEF EnterCheck, NewClient
    <3>3. CASE d # c
      <4>1. cl'[c] = cl[c] /\ cpc'[c] = cpc[c]
        BY <1>t, <2>0, <3>1, <3>3 DEF EnterCheck, Goto
      <4> QED
        BY <1>4, <2>1, <4>1
    <3> QED
      BY <3>2, <3>3
  <2>4. CASE EnterSet(d)
    <3>1. CASE d = c
      <4>1. cl'[c].ok = cl[c].ok
        BY <1>t, <2>0, <2>4, <3>1 DEF EnterSet, ClientData
      <4>2. cl[c].ok
        BY <2>4, <3>1 DEF EnterSet, OkInv
      <4> QED
        BY <4>1, <4>2
    <3>2. CASE d # c
      <4>1. cl'[c] = [cl[c] EXCEPT !.clean = FALSE] /\ cpc'[c] = cpc[c]
        BY <1>t, <2>0, <2>4, <3>2 DEF EnterSet, Goto
      <4> QED
        BY <1>4, <2>1, <4>1
    <3> QED
      BY <3>1, <3>2
  <2>5. CASE \E n \in Chunk : Send(d, n)
    <3>1. PICK n \in Chunk : Send(d, n)
      BY <2>5
    <3>2. CASE Answered(d, cl[d].pos + n, FALSE)
      BY <2>2, <3>1, <3>2 DEF Send
    <3>3. CASE /\ cl' = [e \in Client |-> IF e = d THEN cl[d] ELSE [cl[e] EXCEPT !.clean = FALSE]]
               /\ Goto(d, "append")
      <4>1. cpc[c] \in Going
        BY <1>4, <1>t, <2>0, <3>1, <3>3 DEF Send, Goto
      <4> QED
        BY <2>0, <2>1, <3>3, <4>1
    <3> QED
      BY <3>1, <3>2, <3>3 DEF Send
  <2>6. CASE AppendRequest(d)
    <3>1. CASE \E ok \in BOOLEAN : Answered(d, req[d].next, ok)
      BY <2>2, <2>6, <3>1 DEF AppendRequest
    <3>2. CASE cl' = cl /\ Goto(d, WakeOf(d))
      <4>1. cpc[c] \in Going
        BY <1>4, <1>t, <2>0, <2>6, <3>2 DEF AppendRequest, Goto
      <4> QED
        BY <2>1, <3>2, <4>1
    <3> QED
      BY <2>6, <3>1, <3>2 DEF AppendRequest
  <2>7. CASE PostMessage(d)
    <3>1. cpc[c] \in Going /\ cl' = cl
      BY <1>4, <1>t, <2>0, <2>7 DEF PostMessage, Goto
    <3> QED
      BY <2>1, <3>1
  <2>8. CASE TakeAnswer(d)
    BY <2>2, <2>8 DEF TakeAnswer
  <2>9. CASE ExitCheck(d) \/ ExitSet(d)
    <3>1. d # c
      BY <1>4, <1>t, <2>0, <2>9 DEF ExitCheck, ExitSet, Goto
    <3>2. cl'[c] \in {cl[c], [cl[c] EXCEPT !.clean = FALSE]} /\ cpc'[c] = cpc[c]
      BY <1>t, <2>0, <2>9, <3>1 DEF ExitCheck, ExitSet, Goto
    <3> QED
      BY <1>4, <2>1, <3>2
  <2> QED
    BY <1>4, <2>3, <2>4, <2>5, <2>6, <2>7, <2>8, <2>9 DEF ClientStep, ClientCall
<1>5. ASSUME NEW d \in Client, ClientStep(d) \/ ClientCall(d)
      PROVE  OkInv'
  BY <1>4, <1>5 DEF OkInv
<1>6. CASE UNCHANGED vars
  BY <1>2, <1>6 DEF vars
<1> QED
  BY <1>1, <1>3, <1>5, <1>6 DEF Next

(* gsSector only changes where a sector of the area is written.            *)
LEMMA SectorStep ==
  ASSUME WholeSectors, IInv, IInv', OkInv, OkInv', EachAlone, EachAlone', SectorInv, [Next]_vars
  PROVE  SectorInv'
<1> USE DEF flashVars, loopVars, workVars, taskVars, clientVars, histVars, boundVars
<1>1. ASSUME spc' \in Writing
      PROVE  SectorInv'
  <2>1. gsSector' \in Area' /\ gsSector' # 0
    BY <1>1, WritingSectorNext
  <2> QED
    BY <2>1 DEF SectorInv
<1>2. ASSUME gsSector' = gsSector, spc' = "destroy" => spc \in {"last", "destroy"}
      PROVE  SectorInv'
  <2>1. Area' = Area
    BY DEF Area, SectorOf
  <2>2. CASE spc' \in Writing
    BY <1>1, <2>2
  <2>3. CASE spc' \notin Writing
    BY <1>2, <2>1, <2>3 DEF SectorInv, Writing, Counting
  <2> QED
    BY <2>2, <2>3
<1>3. CASE SystemReset \/ PowerLoss
  BY <1>3 DEF SystemReset, PowerLoss, Reboot, SectorInv, Counting
<1>4. CASE BeginWrite
  <2>1. CASE spc' = "piece"
    BY <1>1, <2>1 DEF Writing
  <2>2. CASE spc' # "piece"
    BY <1>2, <1>4, <2>2 DEF BeginWrite, FastBegin, FinishWith, SGoto
  <2> QED
    BY <2>1, <2>2
<1>5. CASE WritePiece
  BY <1>1, <1>5 DEF WritePiece, SGoto, Writing, Counting
<1>6. CASE Receive \/ SetBusy \/ FirstRequest \/ TakeRequest \/ DeleteRequest \/ TestBusy \/ ClearBusy
           \/ Complete \/ NextRequest
  BY <1>2, <1>6 DEF Receive, SetBusy, FirstRequest, TakeRequest, Refuse, TakeHeader, TakePayload,
                    DeleteRequest, TestBusy, ClearBusy, Complete, NextRequest, Finish, SGoto
<1>7. CASE TestHeader \/ Load \/ Store \/ TestData \/ TestLast \/ Destroy \/ BeginVerify \/ VerifyBlock
           \/ EndVerify \/ NumberHeader \/ EraseHeader \/ HeaderNoMem \/ ProgramHeader \/ SetFlag
  BY <1>2, <1>7 DEF TestHeader, Load, Store, TestData, TestLast, Destroy, FastDestroy, BeginVerify,
                    VerifyBlock, EndVerify, NumberHeader, EraseHeader, HeaderNoMem, ProgramHeader,
                    SetFlag, Finish, FinishWith, SGoto
<1>8. ASSUME NEW d \in Client, ClientStep(d) \/ ClientCall(d)
      PROVE  SectorInv'
  <2>1. gsSector' = gsSector /\ spc' = spc
    BY <1>8 DEF ClientStep, ClientCall, EnterCheck, EnterSet, FastInit, FastInitNoMem, Send, AppendRequest,
                PostMessage, TakeAnswer, ExitCheck, ExitSet
  <2> QED
    BY <1>2, <2>1
<1>9. CASE UNCHANGED vars
  BY <1>2, <1>9 DEF vars
<1> QED
  BY <1>3, <1>4, <1>5, <1>6, <1>7, <1>8, <1>9 DEF Next, FwupTask

(* What a step flushes is gsSector.                                        *)
LEMMA FlushedSector ==
  ASSUME TypeInv, [Next]_vars, NEW a \in Addr, nor'[a] # nor[a]
  PROVE  SectorOf(a) = gsSector /\ (gsSector # 0 \/ spc \in {"piece", "destroy"})
<1> USE DEF flashVars, fwVars, loopVars, workVars, taskVars, clientVars, histVars, boundVars
<1>1. ASSUME NEW c, nor' = Flushed(gsSector, c)
      PROVE  SectorOf(a) = gsSector
  BY <1>1 DEF Flushed
<1>2. CASE PowerLoss
  BY <1>1, <1>2 DEF PowerLoss, Flushing
<1>3. CASE BeginWrite
  BY <1>1, <1>3 DEF BeginWrite, FastBegin
<1>4. CASE WritePiece
  BY <1>1, <1>4 DEF WritePiece, FastPiece
<1>5. CASE Destroy
  BY <1>1, <1>5 DEF Destroy, FastDestroy
<1>6. CASE Receive \/ SetBusy \/ FirstRequest \/ TakeRequest \/ TestHeader \/ Load \/ Store \/ TestData
           \/ TestLast \/ BeginVerify \/ VerifyBlock \/ EndVerify \/ NumberHeader \/ EraseHeader
           \/ HeaderNoMem \/ ProgramHeader \/ SetFlag \/ DeleteRequest \/ TestBusy \/ ClearBusy
           \/ Complete \/ NextRequest \/ SystemReset \/ UNCHANGED vars
  BY <1>6 DEF Receive, SetBusy, FirstRequest, TakeRequest, TestHeader, Load, Store, TestData, TestLast,
              BeginVerify, VerifyBlock, EndVerify, NumberHeader, EraseHeader, HeaderNoMem,
              ProgramHeader, SetFlag, DeleteRequest, TestBusy, ClearBusy, Complete, NextRequest,
              SystemReset, vars
<1>7. ASSUME NEW d \in Client, ClientStep(d) \/ ClientCall(d)
      PROVE  FALSE
  BY <1>7 DEF ClientStep, ClientCall, EnterCheck, EnterSet, FastInit, FastInitNoMem, Send, AppendRequest,
              PostMessage, TakeAnswer, ExitCheck, ExitSet
<1> QED
  BY <1>2, <1>3, <1>4, <1>5, <1>6, <1>7 DEF Next, FwupTask

(* Where every updater has the session to itself and no image fills the    *)
(* update area to its last byte, no flash write, not of a session that     *)
(* follows an abandoned one, and no power loss in it, changes a cell       *)
(* outside the area.                                                       *)
THEOREM OnlyUpdateArea ==
  ASSUME WholeSectors
  PROVE  Spec /\ []EachAlone => UpdateAreaOnly
<1> DEFINE Inv == IInv /\ AreaInv
           Outside == \A a \in Addr : a \notin Base .. UserStart - 1 => nor'[a] = nor[a]
<1>1. Init => Inv
  <2>1. ASSUME Init
        PROVE  AreaInv
    <3>1. gsSector = 0 /\ spc = "recv" /\ \A c \in Socket : cpc[c] = "idle"
      BY <2>1 DEF Init, FlashInit, Client
    <3> QED
      BY <3>1 DEF AreaInv, SectorInv, OkInv, Going, Counting
  <2> QED
    BY <2>1, InitInv
<1>2. Inv /\ EachAlone /\ EachAlone' /\ [Next]_vars => Inv'
  <2> SUFFICES ASSUME Inv, EachAlone, EachAlone', [Next]_vars
               PROVE  Inv'
    OBVIOUS
  <2>1. IInv' /\ OkInv'
    BY TypeStep, ListStep, BusyStep, HeaderStep, UpdateStep, OkStep DEF IInv, AreaInv
  <2>2. SectorInv'
    BY <2>1, SectorStep DEF AreaInv
  <2> QED
    BY <2>1, <2>2 DEF AreaInv
<1>3. Inv /\ EachAlone /\ [Next]_vars => [Outside]_vars
  <2> SUFFICES ASSUME Inv, EachAlone, [Next]_vars, NEW a \in Addr, nor'[a] # nor[a]
               PROVE  a \in Base .. UserStart - 1
    OBVIOUS
  <2>1. SectorOf(a) = gsSector /\ (gsSector # 0 \/ spc \in {"piece", "destroy"})
    BY FlushedSector DEF IInv
  <2>2. SectorOf(a) \in Area
    BY <2>1 DEF AreaInv, SectorInv
  <2> QED
    BY <2>2, AddrType, AreaSectors
<1> HIDE DEF Inv
<1> QED
  BY <1>1, <1>2, <1>3, PTL DEF Spec, UpdateAreaOnly
=============================================================================

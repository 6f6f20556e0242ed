------------------------------ MODULE FtlBridge ------------------------------
(***************************************************************************)
(* tramp_ftl_rd and tramp_ftl_wr (pkg/nand16gb/asm/diskmode_ftlbridge.S):  *)
(* disk mode's FTL path in 4 KiB sectors over 8 KiB pages.                 *)
(*                                                                         *)
(* A request with an even sector and an even count is one inner call, whose*)
(* status is returned.  Any other is served sector by sector through a     *)
(* scratch page, whatever the inner calls return, and answered 0.          *)
(***************************************************************************)
EXTENDS StorageDomain

CONSTANT MaxFaults    \* bound: inner calls that fail in one behaviour

VARIABLES
  pages,               \* the FTL's logical pages, by half
  req, buf, result,    \* the request, the host's buffer, r0
  pc,
  i,                   \* r10 (read), r9 (write): sectors done
  ftl_scr,             \* the scratch page, by half
  hurt,                \* history: an inner call of the request failed
  faults

vars == <<pages, req, buf, result, pc, i, ftl_scr, hurt, faults>>

Page == [0 .. 1 -> Value]
Page0(b) == b \div 2
Half(b) == b % 2

Init ==
  /\ pages = [p \in 0 .. Pages - 1 |-> [h \in 0 .. 1 |-> Erased]]
  /\ req \in Requests /\ buf = [k \in Slots |-> Erased] /\ result = "none"
  /\ pc = "idle" /\ i = 0 /\ ftl_scr = [h \in 0 .. 1 |-> Erased]
  /\ hurt = FALSE /\ faults = 0

(* Both arguments even: the fast path. *)
FastPath(r) == Half(r.lba) = 0 /\ Half(r.count) = 0

Submit(r) ==
  /\ pc = "idle"
  /\ pc' = IF FastPath(r) THEN "fast" ELSE "loop"
  /\ req' = r /\ buf' = Payload(r) /\ result' = "none" /\ i' = 0 /\ hurt' = FALSE
  /\ UNCHANGED <<pages, ftl_scr, faults>>

Return(status) ==
  pc' = "idle" /\ result' = status /\ i' = 0 /\ hurt' = FALSE /\ UNCHANGED req

Works == UNCHANGED <<hurt, faults>>
Fault == faults < MaxFaults /\ faults' = faults + 1

-----------------------------------------------------------------------------
RunPages == {Page0(b) : b \in Target(req)}
RunWritten(S) ==
  [p \in 0 .. Pages - 1 |->
     IF p \in S THEN [h \in 0 .. 1 |-> buf[2 * p + h - req.lba]] ELSE pages[p]]

FastRead ==
  /\ pc = "fast" /\ req.op = "read"
  /\ \/ /\ UNCHANGED faults /\ Return("ok")
        /\ buf' = [k \in Slots |-> IF k < req.count
                     THEN pages[Page0(req.lba + k)][Half(k)] ELSE buf[k]]
     \/ /\ Fault /\ Return("error")
        /\ \E lost \in SUBSET {k \in Slots : k < req.count} :
             buf' = [k \in Slots |-> IF k \in lost THEN Junk ELSE buf[k]]
  /\ UNCHANGED <<pages, ftl_scr>>

FastWrite ==
  /\ pc = "fast" /\ req.op = "write"
  /\ \/ UNCHANGED faults /\ Return("ok") /\ pages' = RunWritten(RunPages)
     \/ /\ Fault /\ Return("error")
        /\ \E S \in SUBSET RunPages : pages' = RunWritten(S)
  /\ UNCHANGED <<buf, ftl_scr>>

-----------------------------------------------------------------------------
sec == req.lba + i
Blank == [h \in 0 .. 1 |-> Erased]
InLoopOnceMore == pc = "loop" /\ i <= req.count
InLoop == pc = "loop" /\ i < req.count

(* What the scratch holds after the inner read into a scratch that held s.  *)
Fetch(s, t) ==
  \/ Works /\ t = pages[Page0(sec)]
  \/ Fault /\ hurt' = TRUE /\ t \in {s, [h \in 0 .. 1 |-> Junk]}

LoopRead ==
  /\ InLoop /\ req.op = "read"
  /\ \E t \in {pages[Page0(sec)], ftl_scr, [h \in 0 .. 1 |-> Junk]} :
       /\ Fetch(ftl_scr, t)
       /\ ftl_scr' = t /\ buf' = [buf EXCEPT ![i] = t[Half(sec)]]
  /\ i' = i + 1 /\ UNCHANGED <<pages, req, result, pc>>

(* The scratch spliced as the last sector left it; the wrong half spliced.  *)
LoopFetchUnblanked ==
  /\ InLoop /\ req.op = "write"
  /\ \E t \in {pages[Page0(sec)], ftl_scr, [h \in 0 .. 1 |-> Junk]} :
       Fetch(ftl_scr, t) /\ ftl_scr' = [t EXCEPT ![Half(sec)] = buf[i]]
  /\ pc' = "store" /\ UNCHANGED <<pages, req, buf, result, i>>

LoopFetchLow ==
  /\ InLoop /\ req.op = "write"
  /\ \E t \in {pages[Page0(sec)], Blank, [h \in 0 .. 1 |-> Junk]} :
       Fetch(Blank, t) /\ ftl_scr' = [t EXCEPT ![0] = buf[i]]
  /\ pc' = "store" /\ UNCHANGED <<pages, req, buf, result, i>>

(* Blank, read (ignoring an error, as for an unmapped page) and splice.     *)
LoopFetch ==
  /\ InLoop /\ req.op = "write"
  /\ \E t \in {pages[Page0(sec)], Blank, [h \in 0 .. 1 |-> Junk]} :
       Fetch(Blank, t) /\ ftl_scr' = [t EXCEPT ![Half(sec)] = buf[i]]
  /\ pc' = "store" /\ UNCHANGED <<pages, req, buf, result, i>>

LoopStore ==
  /\ pc = "store"
  /\ \/ Works /\ pages' = [pages EXCEPT ![Page0(sec)] = ftl_scr]
     \/ Fault /\ hurt' = TRUE /\ pages' \in {pages, [pages EXCEPT ![Page0(sec)] = ftl_scr]}
  /\ pc' = "loop" /\ i' = i + 1 /\ UNCHANGED <<req, buf, result, ftl_scr>>

LoopDone ==
  /\ pc = "loop" /\ i >= req.count
  /\ Return("ok") /\ UNCHANGED <<pages, buf, ftl_scr, faults>>

PowerLoss ==
  /\ pc # "idle" /\ pc' = "idle" /\ i' = 0 /\ hurt' = FALSE /\ ftl_scr' = Blank
  /\ UNCHANGED <<pages, req, buf, result, faults>>

Next ==
  \/ \E r \in Requests : Submit(r)
  \/ FastRead \/ FastWrite \/ LoopRead \/ LoopFetch \/ LoopStore \/ LoopDone
  \/ PowerLoss

Spec == Init /\ [][Next]_vars

=============================================================================

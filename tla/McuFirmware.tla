---------------------------- MODULE McuFirmware ----------------------------
(***************************************************************************)
(* The MCU firmware's receive-and-execute path: edge_link_task's UART      *)
(* frame assembly and execute_svm_frame (src/eyeflow-svm-mcu/src/main.rs), *)
(* MicroSvm::execute with its dispatch tables (svm.rs), and the offline    *)
(* ring each frame gets (offline.rs, through McuOfflineRing).              *)
(*                                                                         *)
(* The firmware is one task: it reads a byte, and when a frame is complete *)
(* it runs the payload to the end before reading on.  The edge node's      *)
(* bytes are a stream fixed at the start; bytes are numbers 0..255.        *)
(***************************************************************************)
EXTENDS Integers, Sequences, SequencesExt

CONSTANTS
    Streams,      \* byte streams the edge node sends: [bytes, sent]
    MaxFrameLen,  \* MAX_FRAME_LEN (capacity of rx_buf)
    Capacity,     \* OFFLINE_CAPACITY
    Timestamps    \* values READ_TIMESTAMP may return

Ring == INSTANCE McuOfflineRing

HeaderLen == 8          \* HEADER_LEN
InstrLen  == 8          \* INSTR_LEN
MaxServiceId == 64      \* MAX_SERVICE_ID
Regs == 0 .. 7

\* a payload's header fields (svm.rs 123-142)
MagicOk(p)  == p[1] = 239 /\ p[2] = 241          \* 0xEF 0xF1
NumInstrLE(p) == p[6] * 256 + p[5]
NumInstr(p) == p[5] * 256 + p[6]                  \* u16::from_be_bytes

\* completion tested one byte before the frame's end
CompleteShort(rx) ==
    /\ Len(rx) >= 4 /\ rx[1] = 170 /\ rx[2] = 85
    /\ Len(rx) = 3 + rx[3] * 256 + rx[4]

\* rx_buf holds a whole frame: 0xAA 0x55, a big-endian length, the payload
Complete(rx) ==
    /\ Len(rx) >= 4 /\ rx[1] = 170 /\ rx[2] = 85  \* 0xAA 0x55
    /\ Len(rx) = 4 + rx[3] * 256 + rx[4]

Res(kind, n) == [kind |-> kind, n |-> n]

\* dispatch_service: the reading of each service id, or Err(0xFF)
DispatchService(svc) ==
    CASE svc = 0 -> {[ok |-> TRUE, v |-> 0]}          \* READ_GPIO stub
      [] svc = 1 -> {[ok |-> TRUE, v |-> 2048]}       \* READ_ADC stub
      [] svc = 2 -> {[ok |-> TRUE, v |-> 1500]}       \* READ_TEMP stub
      [] svc = 3 -> {[ok |-> TRUE, v |-> t] : t \in Timestamps}
      [] OTHER   -> {[ok |-> FALSE, v |-> 255]}

VARIABLES
    stream,    \* the edge node's byte stream
    rpos,      \* index of the next byte uart.read returns
    rx,        \* rx_buf
    phase,     \* "read", "validate", "run" or "done"
    payload,   \* the frame payload being executed
    pc, r, flags, ocount, outLen,  \* MicroSvm state and execute's locals
    result,    \* the SvmResult of the frame
    ring,      \* the frame's OfflineBuffer
    steps,     \* history: instructions dispatched for this frame
    reports,   \* history: REPORT values enqueued for this frame
    frames,    \* history: payloads received
    fends,     \* history: the stream index of each frame's last byte
    results,   \* history: [res, steps] per frame executed
    discarded  \* history: ring entries dropped with their buffer

vars == <<stream, rpos, rx, phase, payload, pc, r, flags, ocount, outLen,
          result, ring, steps, reports, frames, fends, results, discarded>>
vm == <<pc, r, flags, ocount, outLen, result, ring, steps, reports>>

Init ==
    /\ stream \in Streams
    /\ rpos = 1
    /\ rx = <<>>
    /\ phase = "read"
    /\ payload = <<>>
    /\ pc = 0
    /\ r = [k \in Regs |-> 0]
    /\ flags = [zero |-> FALSE, error |-> FALSE]
    /\ ocount = 0
    /\ outLen = 0
    /\ result = Res("none", 0)
    /\ ring = Ring!Empty
    /\ steps = 0
    /\ reports = <<>>
    /\ frames = <<>>
    /\ fends = <<>>
    /\ results = <<>>
    /\ discarded = <<>>

-----------------------------------------------------------------------------
\* edge_link_task: one byte from the UART.  It joins rx_buf if a frame has
\* begun or it is 0xAA; a full rx_buf is cleared; a complete frame is
\* handed to execute_svm_frame with a fresh MicroSvm and OfflineBuffer.
ReceiveByte ==
    /\ phase = "read"
    /\ rpos <= Len(stream.bytes)
    /\ LET b    == stream.bytes[rpos]
           grow == rx # <<>> \/ b = 170
           rx1  == IF grow THEN Append(rx, b) ELSE rx
       IN  IF grow /\ Len(rx) = MaxFrameLen
             THEN /\ rx' = <<>>
                  /\ UNCHANGED <<phase, payload, vm, frames, fends>>
           ELSE IF Complete(rx1)
             THEN /\ rx' = rx1
                  /\ phase' = "validate"
                  /\ payload' = SubSeq(rx1, 5, Len(rx1))
                  /\ frames' = Append(frames, SubSeq(rx1, 5, Len(rx1)))
                  /\ fends' = Append(fends, rpos)
                  /\ pc' = 0
                  /\ r' = [k \in Regs |-> 0]
                  /\ flags' = [zero |-> FALSE, error |-> FALSE]
                  /\ ocount' = 0
                  /\ outLen' = 0
                  /\ result' = Res("none", 0)
                  /\ ring' = Ring!Empty
                  /\ steps' = 0
                  /\ reports' = <<>>
           ELSE /\ rx' = rx1
                /\ UNCHANGED <<phase, payload, vm, frames, fends>>
    /\ rpos' = rpos + 1
    /\ UNCHANGED <<stream, results, discarded>>

\* execute: the header checks, each an early return with its code; a
\* clear no_std flag bit only warns
Validate ==
    /\ phase = "validate"
    /\ LET p == payload IN
       CASE Len(p) < HeaderLen -> result' = Res("ValidationError", 1) /\ phase' = "done"
         [] ~MagicOk(p)        -> result' = Res("ValidationError", 2) /\ phase' = "done"
         [] p[3] # 1           -> result' = Res("ValidationError", 3) /\ phase' = "done"
         [] Len(p) < HeaderLen + NumInstr(p) * InstrLen
                               -> result' = Res("ValidationError", 4) /\ phase' = "done"
         [] OTHER              -> phase' = "run" /\ UNCHANGED result
    /\ UNCHANGED <<stream, rpos, rx, payload, pc, r, flags, ocount, outLen,
                   ring, steps, reports, frames, fends, results, discarded>>

\* the instruction at pc: opcode and operand k (ops[k])
Opcode == payload[HeaderLen + pc * InstrLen + 1]
Opnd(k) == payload[HeaderLen + pc * InstrLen + k + 2]
Running(op) == phase = "run" /\ pc < NumInstr(payload) /\ Opcode = op

\* RETURN's and the implicit return's result
Finish(len) ==
    /\ result' = IF ocount > 0 THEN Res("OfflineQueued", ocount) ELSE Res("Ok", len)
    /\ phase' = "done"

\* CALL_SERVICE (0x01): an id >= 64 sets Error and moves on; else the
\* service's reading goes to out_reg with Zero = (reading = 0), or a
\* failure sets Error and counts an offline call
CallService ==
    /\ Running(1)
    /\ IF Opnd(0) >= MaxServiceId
         THEN /\ flags' = [flags EXCEPT !.error = TRUE]
              /\ UNCHANGED <<r, ocount>>
         ELSE \E s \in DispatchService(Opnd(0)) :
                IF s.ok
                  THEN /\ r' = [r EXCEPT ![Opnd(2) % 8] = s.v]
                       /\ flags' = [zero |-> s.v = 0, error |-> FALSE]
                       /\ UNCHANGED ocount
                  ELSE /\ flags' = [flags EXCEPT !.error = TRUE]
                       /\ ocount' = ocount + 1
                       /\ UNCHANGED r
    /\ pc' = pc + 1
    /\ steps' = steps + 1
    /\ UNCHANGED <<stream, rpos, rx, phase, payload, outLen, result, ring,
                   reports, frames, fends, results, discarded>>

\* CALL_ACTION (0x02) with dispatch_action: GPIO, PWM and ALERT_LED
\* succeed; REPORT enqueues the value in the ring; another id fails
CallAction ==
    /\ Running(2)
    /\ LET id == Opnd(0)
           v  == r[Opnd(1) % 8]
       IN  /\ flags' = [flags EXCEPT !.error = id \notin 0 .. 3]
           /\ ocount' = IF id \in 0 .. 3 THEN ocount ELSE ocount + 1
           /\ ring' = IF id = 2 THEN Ring!EnqueueReport(ring, v) ELSE ring
           /\ reports' = IF id = 2 THEN Append(reports, v) ELSE reports
    /\ pc' = pc + 1
    /\ steps' = steps + 1
    /\ UNCHANGED <<stream, rpos, rx, phase, payload, r, outLen, result,
                   frames, fends, results, discarded>>

\* BRANCH (0x03): condition on Zero or Error; a taken branch outside the
\* program is RuntimeError(0x10); an unknown condition is not taken
BranchTaken(c) ==
    CASE c = 0 -> flags.zero [] c = 1 -> ~flags.zero
      [] c = 2 -> flags.error [] c = 3 -> ~flags.error
      [] OTHER -> FALSE

\* a taken branch that jumps without checking its target
BranchUnchecked ==
    /\ Running(3)
    /\ LET target == Opnd(1) * 256 + Opnd(2)
       IN  IF BranchTaken(Opnd(0)) THEN pc' = target ELSE pc' = pc + 1
    /\ UNCHANGED <<result, phase>>
    /\ steps' = steps + 1
    /\ UNCHANGED <<stream, rpos, rx, payload, r, flags, ocount, outLen, ring,
                   reports, frames, fends, results, discarded>>

Branch ==
    /\ Running(3)
    /\ LET target == Opnd(1) * 256 + Opnd(2)
       IN  IF BranchTaken(Opnd(0)) /\ target >= NumInstr(payload)
             THEN /\ result' = Res("RuntimeError", 16)
                  /\ phase' = "done"
                  /\ UNCHANGED pc
           ELSE IF BranchTaken(Opnd(0))
             THEN pc' = target /\ UNCHANGED <<result, phase>>
           ELSE pc' = pc + 1 /\ UNCHANGED <<result, phase>>
    /\ steps' = steps + 1
    /\ UNCHANGED <<stream, rpos, rx, payload, r, flags, ocount, outLen, ring,
                   reports, frames, fends, results, discarded>>

\* RETURN (0x04): two output bytes (the 512-byte buffer has room: one
\* RETURN ends the run), then OfflineQueued if a call failed, else Ok
Return ==
    /\ Running(4)
    /\ outLen' = outLen + 2
    /\ Finish(outLen + 2)
    /\ steps' = steps + 1
    /\ UNCHANGED <<stream, rpos, rx, payload, pc, r, flags, ocount, ring,
                   reports, frames, fends, results, discarded>>

\* any other opcode: RuntimeError(0x20)
UnknownOpcode ==
    /\ phase = "run" /\ pc < NumInstr(payload) /\ Opcode \notin 1 .. 4
    /\ result' = Res("RuntimeError", 32)
    /\ phase' = "done"
    /\ UNCHANGED <<stream, rpos, rx, payload, pc, r, flags, ocount, outLen,
                   ring, steps, reports, frames, fends, results, discarded>>

\* the loop ran off the end: implicit RETURN
ImplicitReturn ==
    /\ phase = "run" /\ pc >= NumInstr(payload)
    /\ Finish(outLen)
    /\ UNCHANGED <<stream, rpos, rx, payload, pc, r, flags, ocount, outLen,
                   ring, steps, reports, frames, fends, results, discarded>>

\* the next frame appended to the previous one's bytes
FrameDoneKeepsRx ==
    /\ phase = "done"
    /\ LET left == IF result.kind = "Ok" THEN Ring!FlushPending(ring) ELSE ring
       IN  discarded' = discarded \o left.q
    /\ ring' = Ring!Empty
    /\ results' = Append(results, [res |-> result, steps |-> steps])
    /\ phase' = "read"
    /\ UNCHANGED <<stream, rpos, rx, payload, pc, r, flags, ocount, outLen, result,
                   steps, reports, frames, fends>>

\* execute_svm_frame after execute: on Ok, flush_pending (link_up is never
\* set, so it returns at once); the OfflineBuffer is then dropped with
\* whatever it holds; edge_link_task clears rx_buf and reads on
FrameDone ==
    /\ phase = "done"
    /\ LET left == IF result.kind = "Ok" THEN Ring!FlushPending(ring) ELSE ring
       IN  discarded' = discarded \o left.q
    /\ ring' = Ring!Empty
    /\ results' = Append(results, [res |-> result, steps |-> steps])
    /\ rx' = <<>>
    /\ phase' = "read"
    /\ UNCHANGED <<stream, rpos, payload, pc, r, flags, ocount, outLen, result,
                   steps, reports, frames, fends>>

Next ==
    \/ ReceiveByte \/ Validate \/ CallService \/ CallAction \/ Branch
    \/ Return \/ UnknownOpcode \/ ImplicitReturn \/ FrameDone

\* one task: every step it can take it takes; the edge node's bytes arrive
Spec == Init /\ [][Next]_vars /\ WF_vars(Next)

-----------------------------------------------------------------------------
(***************************************************************************)
(* Properties                                                              *)
(***************************************************************************)
\* s is t with some elements left out, the others in order
IsSubseqOf(s, t) ==
    \E keep \in SUBSET DOMAIN t :
        LET nth(i) == CHOOSE k \in keep : Cardinality({j \in keep : j < k}) = i - 1
        IN  /\ Cardinality(keep) = Len(s)
            /\ \A i \in 1 .. Len(s) : s[i] = t[nth(i)]

\* Type invariant
TypeOK ==
    /\ phase \in {"read", "validate", "run", "done"}
    /\ rpos \in 1 .. Len(stream.bytes) + 1
    /\ Len(rx) <= MaxFrameLen
    /\ r \in [Regs -> 0 .. 65535]
    /\ flags \in [zero : BOOLEAN, error : BOOLEAN]
    /\ Len(ring.q) <= Capacity
    /\ phase = "run" => pc \in 0 .. NumInstr(payload)

\* Whatever the UART delivers (noise, a stray 0xAA, a sync pair in the
\* noise, a frame cut off), edge_link_task (main.rs 80-103) hands the
\* executor exactly the bytes that follow a 0xAA 0x55 pair and its
\* big-endian length in the stream: that many, contiguous and unaltered,
\* each frame starting after the previous one's end.  Nothing more: with
\* no checksum and no inter-byte timeout, such a window need not be a
\* payload the edge node sent.
FramesDelimited ==
    \A i \in DOMAIN frames :
        LET n     == Len(frames[i])
            start == fends[i] - n - 3
        IN  /\ start >= 1
            /\ i > 1 => start > fends[i - 1]
            /\ SubSeq(stream.bytes, start, fends[i]) = <<170, 85, n \div 256, n % 256>> \o frames[i]

\* Every frame of a stream without stray bytes is received and executed,
\* one after another (the framing resynchronises after each frame).
AllFramesReceived == stream.clean => <>(frames = stream.sent)

\* Spec 8 law 9, from its text: a payload shorter than the header, with the
\* wrong magic or version, or declaring more instructions than it holds,
\* and only such a payload, ends in a ValidationError before any
\* instruction is dispatched (MicroSvm::execute, svm.rs 117-151).
Malformed(p) ==
    LET declared == FoldLeft(LAMBDA a, byte : a * 256 + byte, 0, SubSeq(p, 5, 6))
    IN  \/ Len(p) < 8
        \/ SubSeq(p, 1, 3) # <<239, 241, 1>>
        \/ declared * 8 > Len(p) - 8
HeaderLaw ==
    \A i \in DOMAIN results :
        /\ results[i].res.kind = "ValidationError" <=> Malformed(frames[i])
        /\ results[i].res.kind = "ValidationError" => results[i].steps = 0

\* Spec 8 law 10: after n REPORT enqueues into a ring of Capacity, it
\* holds the last min(n, Capacity) values in order and dropped counts the
\* rest (OfflineBuffer::push, offline.rs 165-179).
RingLaw ==
    phase \in {"run", "done"} =>
        LET n == Len(reports)
            k == Len(ring.q)
        IN  /\ k = IF n < Capacity THEN n ELSE Capacity
            /\ ring.dropped = n - k
            /\ [i \in 1 .. k |-> ring.q[i].value] = SubSeq(reports, n - k + 1, n)

\* The offline module's doc: entries queued while the link is unavailable
\* are drained back to the edge node by flush_pending; none is destroyed
\* unsent with its buffer (execute_svm_frame, main.rs 114-133).
ReportsKept == discarded = <<>>
=============================================================================

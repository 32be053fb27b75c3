--------------------------- MODULE MCMcuFirmware ---------------------------
(***************************************************************************)
(* Model values for McuFirmware: IR payloads built from instructions, and  *)
(* the byte streams that carry them.                                       *)
(***************************************************************************)
EXTENDS McuFirmware

\* a frame: 0xAA 0x55, big-endian payload length, payload
Frame(p) == <<170, 85, Len(p) \div 256, Len(p) % 256>> \o p
\* an 8-byte header: magic, version, flags, big-endian count, reserved
Header(ver, num) == <<239, 241, ver, 1, num \div 256, num % 256, 0, 0>>
Ins(op, a, b, c) == <<op, a, b, c, 0, 0, 0, 0>>
Prog(ins) == Header(1, Len(ins)) \o FoldLeft(LAMBDA acc, x : acc \o x, <<>>, ins)

CS(svc, in, out) == Ins(1, svc, in, out)
CA(id, reg)      == Ins(2, id, reg, 0)
BR(cond, target) == Ins(3, cond, target \div 256, target % 256)
RET(reg)         == Ins(4, reg, 0, 0)

\* ADC and temperature reads, a branch over an invalid service, three
\* REPORTs of different values (ring of 2), RETURN
PReport == Prog(<< CS(1, 0, 1), CS(2, 0, 2), BR(1, 4), CS(70, 0, 0), CA(2, 0),
                   CA(2, 1), CA(2, 2), RET(1) >>)
\* failing calls: bad id, unknown service and action, then the good actions,
\* untaken branches, a zero read and a timestamp: OfflineQueued(2)
PFail == Prog(<< CS(70, 0, 0), CS(5, 0, 0), CA(9, 0), CA(0, 0), CA(1, 0),
                 CA(3, 0), BR(2, 0), BR(7, 0), CS(0, 0, 2), CS(3, 0, 3),
                 BR(0, 12), RET(3) >>)
\* a taken branch out of range; an unknown opcode; running off the end
POut   == Prog(<< BR(3, 9), RET(0) >>)
PBadOp == Prog(<< CS(2, 0, 1), Ins(7, 0, 0, 0) >>)
PEnd   == Prog(<< CS(1, 0, 1) >>)
PEndQ  == Prog(<< CS(5, 0, 1) >>)
\* malformed payloads: short, bad magic, version 2, truncated
PShort == <<239, 241, 1, 1, 0>>
PMagic == <<239, 240>> \o SubSeq(Prog(<< RET(0) >>), 3, 16)
PVer   == Header(2, 1) \o RET(0)
PTrunc == Header(1, 3) \o RET(0)

Send(ps) == FoldLeft(LAMBDA acc, p : acc \o Frame(p), <<>>, ps)

\* noise before and between frames; every frame is received
SClean ==
    LET ps == << PReport, PFail, POut, PBadOp, PEnd, PEndQ, PShort, PMagic,
                 PVer, PTrunc >>
    IN  [bytes |-> <<0, 85>> \o Send(SubSeq(ps, 1, 5)) \o <<7>> \o Send(SubSeq(ps, 6, 10)),
         sent |-> ps, clean |-> TRUE]
\* a stray 0xAA before a frame: it is swallowed until rx_buf overflows
SStray ==
    [bytes |-> <<170>> \o Frame(PEnd) \o [k \in 1 .. 100 |-> 0] \o Frame(PEndQ),
     sent |-> << PEnd, PEndQ >>, clean |-> FALSE]

\* 0xAA 0x55 0x00 0x00 in the noise: an empty frame nobody sent
SSync ==
    [bytes |-> <<170, 85, 0, 0>> \o Frame(PEnd), sent |-> << PEnd >>, clean |-> FALSE]
\* a frame cut off after 12 bytes: the next two frames complete its
\* payload, and the frame after them is received again
STrunc ==
    [bytes |-> SubSeq(Frame(PFail), 1, 12) \o Send(<< PEnd, PReport, PEndQ >>),
     sent |-> << PFail, PEnd, PReport, PEndQ >>, clean |-> FALSE]

MCStreams == {SClean, SStray, SSync, STrunc}
\* one frame with REPORTs
MCReport == {[bytes |-> Frame(PReport), sent |-> << PReport >>, clean |-> TRUE]}
=============================================================================

\* Every opcode path, malformed headers, noise between frames, a stray
\* sync byte, a sync pair in noise and a cut-off frame; rx_buf holds a
\* little more than the longest frame.
SPECIFICATION Spec
CONSTANTS
    Streams <- MCStreams
    MaxFrameLen = 112
    Capacity = 2
    Timestamps = {0, 4660}
INVARIANT TypeOK FramesDelimited HeaderLaw RingLaw
PROPERTY AllFramesReceived
\* the task waits in uart.read once the edge node stops sending
CHECK_DEADLOCK FALSE

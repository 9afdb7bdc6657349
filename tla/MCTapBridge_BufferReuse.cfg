\* Server-side TAP bridge: two peers, two MACs, two pooled buffers, three frames.
CONSTANTS
    Peers = {u1, u2}
    MACs = {m1, m2}
    Buffers = {b1, b2}
    MaxFrames = 3
    BCAST = BCAST
    NoPeer = NoPeer
    NoMAC = NoMAC
SPECIFICATION Spec
INVARIANT WritesCarryTheirFrame
\* The bridge stops once the bound on frames is reached and fan-outs are done.
CHECK_DEADLOCK FALSE

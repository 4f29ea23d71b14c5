----------------------------- MODULE MCDPBitmap -----------------------------
EXTENDS DPBitmap

MCSectorSize == 2
MCRegionSize == 2
\* 26 sectors: one full region of 16, and a byte and two bits of the second.
MCTotalSize  == 52

\* Range ends on, just before and just after the byte boundaries 8 and 24,
\* the region boundary 16 and the end of the volume 26.
Ends == {0, 1, 7, 8, 9, 15, 16, 17, 23, 24, 25, 26}

\* The aligned ranges between two of them, and three that are refused.
MCRequests ==
    {<<MCSectorSize * c[1], MCSectorSize * (c[2] - c[1])>> :
        c \in {d \in Ends \X Ends : d[1] <= d[2]}}
    \cup {<<-2, 2>>, <<1, 2>>, <<2, 3>>}
=============================================================================

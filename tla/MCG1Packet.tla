---------------------------- MODULE MCG1Packet ------------------------------
(* Constants of the runs of G1Packet.                                       *)
EXTENDS G1Packet

\* All control bytes of the two legal types and one of each illegal kind.
MCControls == 0 .. 63 \cup {64, 65, 69, 85, 89, 125, 128, 255}

\* The shortest packets, and sizes around the ends of short and long addresses.
MCSizes == {0, 1, 2, 3, 8, 9, 15, 16, 23, 38, 45}
=============================================================================

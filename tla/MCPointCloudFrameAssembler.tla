---------------------- MODULE MCPointCloudFrameAssembler ----------------------
(* A small instance of the frame assembler for model checking. *)
EXTENDS PointCloudFrameAssembler

Packet(ts, total, index, size, variant) ==
  [timestamp |-> ts, total |-> total, index |-> index, size |-> size,
   variant |-> variant]

\* Every packet of at most two points of a three-point frame, in range or not,
\* one with other content, and ones declaring another total, too large a total
\* and none; and the packets of two small frames that compete with it for the
\* slots.
MCPackets ==
  {Packet(1, 3, index, size, 0) : index \in 0..3, size \in 1..2}
    \cup {Packet(1, 3, 1, 1, 1), Packet(1, 4, 1, 2, 2), Packet(1, 5, 0, 1, 0),
          Packet(1, 0, 0, 1, 0)}
    \cup {Packet(ts, 2, index, 1, 0) : ts \in 2..3, index \in 0..1}
=============================================================================

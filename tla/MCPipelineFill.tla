--------------------------- MODULE MCPipelineFill ---------------------------
(***************************************************************************)
(* Either bus order on short passes: every sequence of up to three of the  *)
(* units below, every depth up to 2, with and without a staging budget,    *)
(* the second unit on demand or not, and every pair of units again in two  *)
(* blocks each.                                                            *)
(***************************************************************************)
EXTENDS PipelineFifo

Unit(gpu, host, dram, nand, c) ==
  [bytes |-> [tier \in Tiers |->
      CASE tier = GPU_TIER -> gpu [] tier = HOST_DRAM -> host
        [] tier = DEVICE_DRAM -> dram [] OTHER -> nand],
   comp |-> c]

\* A NAND unit, one over two tiers, a unit of device DRAM, one resident in GPU
\* memory, and a heavy one over the whole device.
Units == {Unit(0, 0, 0, 2, 2), Unit(0, 2, 0, 2, 0), Unit(0, 0, 2, 0, 4),
          Unit(2, 0, 0, 0, 2), Unit(0, 0, 2, 4, 2)}

CallsOf(lengths, blocks) ==
  [units : UNION {[1 .. n -> Units] : n \in lengths}, depth : 0 .. 2,
   budget : {NoBudget, 0, 3, 4}, demand : {{}, {1}}, blocks : blocks]

MCCalls == CallsOf(0 .. 3, {1}) \cup CallsOf({2}, {2})

Setting(pass, ser, nand, str, gpu) ==
  [tierTime |-> [tier \in Tiers |-> IF tier = GPU_TIER THEN 0
                                    ELSE IF tier = DEVICE_NAND THEN 2 ELSE 1],
   tierLat |-> [tier \in Tiers |-> IF tier = DEVICE_NAND THEN 1 ELSE 0],
   chunk |-> 2, hostLinkTime |-> 1, gpuLinkTime |-> gpu, passThrough |-> pass,
   serial |-> ser, nandOnly |-> nand, stream |-> str]

\* The device default, a serial device, a streaming GPU, and a link-bound host.
MCSettings == {Setting(2, FALSE, FALSE, FALSE, 0), Setting(1, TRUE, TRUE, FALSE, 1),
               Setting(0, FALSE, TRUE, TRUE, 0), Setting(1, FALSE, FALSE, TRUE, 2)}
=============================================================================

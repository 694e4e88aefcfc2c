---------------------------- MODULE MCOpenCLDevice ----------------------------
(* A device with one buffer, or two, and one address of the host.            *)
EXTENDS OpenCLDevice

CONSTANTS b1, b2, p1

MCOneBuffer == {b1}
MCTwoBuffers == {b1, b2}
MCHosts == {p1}
MCBothWays == {{<<b1, "InputAndOutput">>}}
MCKernels == {{<<b1, "Input">>, <<b2, "Output">>}, {<<b2, "InputAndOutput">>}}
===============================================================================

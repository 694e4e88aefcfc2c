------------------------------ MODULE MCRpcServer ------------------------------
(* RpcServer with three objects, two of which implement one interface. *)
EXTENDS RpcServer, TLC

CONSTANTS t1, t2, t3, o1, o2, o3, i1, i2, c1, c2

MCThreads == {t1, t2, t3}
MCObjects == {o1, o2, o3}
MCInterfaces == {i1, i2}
MCInterfaceOf(o) == IF o = o3 THEN i2 ELSE i1
MCCalls == {c1, c2}
===============================================================================

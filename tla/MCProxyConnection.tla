--------------------------- MODULE MCProxyConnection ---------------------------
(***************************************************************************)
(* ProxyConnection with three threads of the ORB and three suppliers, for   *)
(* the four settings of the channel's options.                             *)
(***************************************************************************)
EXTENDS ProxyConnection

CONSTANTS t1, t2, t3, s1, s2, s3

MCThread == {t1, t2, t3}
MCSupplier == {s1, s2, s3}

===============================================================================

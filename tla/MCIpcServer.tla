---------------------------- MODULE MCIpcServer -----------------------------
(* Requests of every kind, to two servers that share the path              *)
(* (MCIpcServer.cfg, where the servers are interchangeable) or to one      *)
(* (MCIpcServerLive.cfg).                                                  *)
EXTENDS IpcServer, TLC

CONSTANTS s1, s2, c1, c2, c3, c4

ServerSymmetry == Permutations(Servers)

MCOp == (c1 :> "bad") @@ (c2 :> "quit") @@ (c3 :> "exit")
MCOpLive == (c2 :> "quit") @@ (c3 :> "exit") @@ (c4 :> "ping")
=============================================================================

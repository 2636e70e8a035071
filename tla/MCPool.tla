--------------------------------- MODULE MCPool ---------------------------------
(***************************************************************************)
(* A pool with fewer connections than requests.                             *)
(***************************************************************************)
EXTENDS MCInquiries, Pool

\* Requests that lock the same rows, and CREACC, which acquires three times.
PoolCommands ==
  {Delcus(1), Creacc(1, "CURRENT", 1), Xfrfun(1, 2, 1), Xfrfun(2, 1, 1)}
=============================================================================

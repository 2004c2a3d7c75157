------------------------------ MODULE MCEpoll ------------------------------
(* Small instances of Epoll and EpollWalk.  Addresses are interchangeable. *)
EXTENDS EpollWalk, TLC

Symmetry == Permutations(Addr)
=============================================================================

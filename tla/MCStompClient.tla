---------------------------- MODULE MCStompClient ----------------------------
(* Sockets and calls are interchangeable.                                    *)
EXTENDS StompClient, TLC

StompSymmetry == Permutations(Sockets) \cup Permutations(Calls)
=============================================================================

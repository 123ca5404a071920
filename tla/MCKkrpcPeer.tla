---------------------------- MODULE MCKkrpcPeer ----------------------------
(***************************************************************************)
(* Instances of KkrpcPeer for TLC: a few requests of each kind, of which   *)
(* the writes name a stream numbered like one of the shell's own.          *)
(*                                                                         *)
(* The shell's own calls share the reader, the writer and the end of the   *)
(* link with the streams, and nothing else.  `part` says which of the two  *)
(* a behaviour of PartSpec is about: the streams without calls, or the     *)
(* calls beside one watch; so the states are the sum of both, not the      *)
(* product.                                                                *)
(***************************************************************************)
EXTENDS KkrpcPeer, TLC

VARIABLE part

Allowed == IF part = "calls" THEN Watches ELSE Reads \cup Writes

PartInit == part \in {"streams", "calls"} /\ Init

PartNext ==
    /\ Next
    /\ host'.asked \subseteq Allowed
    /\ part = "streams" => UNCHANGED call
    /\ part = "calls" => host'.pulled = host.pulled  \* a watch spends no credit
    /\ UNCHANGED part

PartSpec == PartInit /\ [][PartNext]_<<part, vars>>

\* Both at once, for the runs that have few requests.
WholeInit == part = "whole" /\ Init

WholeSpec ==
    WholeInit /\ [][Next /\ UNCHANGED part]_<<part, vars>> /\ Fairness

Interchangeable == Permutations(Writes)
=============================================================================

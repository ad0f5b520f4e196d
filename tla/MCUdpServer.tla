---------------------------- MODULE MCUdpServer ----------------------------
(***************************************************************************)
(* UdpServer for TLC.  Peers are interchangeable, so datagrams are: no     *)
(* definition of UdpServer tells one from another.                         *)
(***************************************************************************)
EXTENDS UdpServer, TLC

DatagramSymmetry == Permutations(Datagram)
=============================================================================

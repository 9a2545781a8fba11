---------------------------- MODULE MCXdpStream ----------------------------
(* XdpStream for TLC: UMEM frames are interchangeable.                      *)
EXTENDS XdpStream, TLC

FrameSymmetry == Permutations(Frames)
=============================================================================

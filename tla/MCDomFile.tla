------------------------------ MODULE MCDomFile ------------------------------
(* Files around the sizes of the buffers: 3, 6 and 12 bytes; 24 overflow.    *)
EXTENDS DomFile

MCSizes == 0..13

=============================================================================

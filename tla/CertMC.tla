------------------------------- MODULE CertMC -------------------------------
(* Instances of Cert for TLC.                                              *)
EXTENDS Cert

\* Two good certificates of different lengths and one that does not parse; the
\* shorter takes one GATT write, the longer two.
MCCertLen == <<3, 2, 2>>
MCBad == {3}

\* Packets of the device certificate that reach, fill or pass the end of its
\* buffer.
MCPayloads == {1, 2}
=============================================================================

---------------------------- MODULE MCCaptureLoop ----------------------------
(* Small instances of CaptureLoop and DeviceReaders for TLC. *)
EXTENDS DeviceReaders

SomeCnts == {-1, 1, 2}

(* Every reader: with a timeout, or in non-blocking mode, and those that wait
   with neither. *)
AllReaders ==
  {<<"v3", 0>>, <<"offline", 1>>, <<"packet", 0>>, <<"can", 0>>, <<"libdlpi", 0>>}
    \cup ((Rings \cup Receivers \cup Buffered \cup Queues) \X {1})
=============================================================================

---------------------------- MODULE MCWifiModes ----------------------------
(* Small instances of WifiModes for TLC.                                   *)
EXTENDS WifiModes

\* The settings forms change: some, or none, as a form that is sent once more.
NewSta == {{"sta"}}
NewStaAndMdns == {{"sta", "mdns"}}
SameOrNewSta == {{}, {"sta"}}
MdnsForm == {{"mdns"}}
ApForm == {{"ap"}}
=============================================================================

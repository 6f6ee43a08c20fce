---------------------------- MODULE MCDeviceSession ----------------------------
(* DeviceSession with a read-only, a write-only and a block object; the       *)
(* descriptor lists fewer of them than the device.                           *)
EXTENDS DeviceSession

CONSTANTS ro, wo, blk

MCObj        == {ro, wo, blk}
MCAccess     == [o \in MCObj |-> IF o = ro THEN "RO" ELSE IF o = wo THEN "WO" ELSE "RW"]
MCDeviceList == <<wo, ro, blk>>
MCDescrList  == <<blk, wo>>
MCReadLists  == {<<blk, ro>>}
MCSettings   == {<<FALSE, "no">>, <<FALSE, "ok">>, <<FALSE, "bad">>, <<TRUE, "no">>}
=============================================================================

------------------------- MODULE MCInstanceAutomation -------------------------
(* InstanceAutomation on a spec of two lists: one the client decodes and one  *)
(* it does not look at.                                                       *)
EXTENDS InstanceAutomation

CONSTANTS t1, t2

MCSectionOrder   == <<"ios", "system">>
MCClientSections == {"ios"}
MCTaggedSections == {"ios"}
MCType           == {t1, t2}

Entry(t, n, f) == [type |-> t, instance |-> n, flaw |-> f]

MCMaxItems == [s \in {"ios", "system"} |-> IF s = "ios" THEN 3 ELSE 1]

MCItemChoice ==
  {Entry(t1, n, "none") : n \in {Missing, -2, 0, 2, Unreadable}}
    \cup {Entry(t2, n, "none") : n \in {Missing, 1}}
    \cup {Entry(NoType, Missing, "none"), Entry(t1, Missing, "invalid"),
          Entry(t1, Missing, "tags")}
=============================================================================

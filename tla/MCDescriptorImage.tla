--------------------------- MODULE MCDescriptorImage ---------------------------
(* DescriptorImage with one name per kind of entry, a second IO that refers   *)
(* ahead, and a name nobody defines; and one descriptor whose protocol binds  *)
(* leds, adc_stream and a config IO.                                          *)
EXTENDS DescriptorImage

CONSTANTS a, c, p, q, ghost

MCName == {a, c, p, q, ghost}

Of(kind, id, refs, outs) ==
  [kind |-> kind, id |-> id, refs |-> refs, outs |-> outs, rw |-> FALSE,
   inline |-> FALSE, bounds |-> {"min", "max"}, path |-> "handler"]
Io(id, path) == [Of("io", id, << >>, << >>) EXCEPT !.path = path]

MCEntryChoice ==
  {Io(a, "handler"), Io(a, "standard"), Io(c, "handler"), Io(c, "generic"),
   Of("control", c, <<a, p>>, << >>), Of("control", c, <<q>>, << >>),
   [Of("config", c, <<a>>, << >>) EXCEPT !.rw = TRUE, !.inline = TRUE],
   [Of("config", c, <<p>>, << >>) EXCEPT !.rw = TRUE],
   Of("config", c, <<a>>, << >>),
   Of("program", p, <<a, c>>, <<c, a>>),
   [Of("program", p, <<a>>, <<c>>) EXCEPT !.bounds = {"min"}],
   Of("program", p, <<a, ghost>>, <<q, c>>),
   Of("program", q, <<a>>, << >>),
   Of("program", q, <<p>>, <<a>>),
   Of("protocol", q, <<p, a>>, << >>), Of("protocol", q, << >>, << >>),
   Of("system", q, << >>, << >>)}

MCOffered ==
  {Io(a, "standard"), Io(c, "generic"),
   Of("config", p, <<c>>, << >>), Of("protocol", q, <<a, c, p>>, << >>)}
=============================================================================

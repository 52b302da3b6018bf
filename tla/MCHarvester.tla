---------------------------- MODULE MCHarvester -----------------------------
(* Instances of Harvester for TLC. *)
EXTENDS Harvester

CONSTANT Case   \* which configurations the run considers

Codec(kind, max, timeout) == [kind |-> kind, max |-> max, timeout |-> timeout]
Plain    == Codec("plain", 1, FALSE)
Filter   == Codec("filter", 1, FALSE)
Previous == Codec("previous", 9, FALSE)
Flushed  == Codec("previous", 2, TRUE)
NextLine == Codec("next", 9, FALSE)

Default == [bytes |-> {Newline, Matcher}, length |-> 3, size |-> 3, maxLine |-> 3,
            chain |-> <<Plain>>, truncations |-> 0, patient |-> TRUE, faults |-> 0,
            stops |-> FALSE]

MCSetups ==
    CASE Case = "all" ->
           { [Default EXCEPT !.bytes = {Newline, Return}, !.size = 2, !.faults = 1],
             [Default EXCEPT !.chain = <<Filter>>, !.size = 1, !.maxLine = 2, !.patient = FALSE],
             [Default EXCEPT !.chain = <<Previous>>, !.length = 2, !.truncations = 1],
             [Default EXCEPT !.chain = <<Flushed>>, !.stops = TRUE],
             [Default EXCEPT !.chain = <<NextLine>>] }
      [] Case = "truncated" -> { [Default EXCEPT !.length = 2, !.truncations = 1] }
      [] Case = "overflow"  -> { [Default EXCEPT !.chain = <<Previous>>, !.size = 2, !.truncations = 1] }
      [] Case = "deadline"  -> { [Default EXCEPT !.chain = <<Codec("previous", 9, TRUE)>>,
                                                 !.patient = FALSE, !.truncations = 1] }
      [] Case = "split"     -> { [Default EXCEPT !.chain = <<Codec("previous", 2, FALSE)>>,
                                                 !.length = 4, !.size = 4, !.maxLine = 4] }
      [] Case = "chained"   -> { [Default EXCEPT !.chain = <<Filter, Previous>>, !.length = 4] }
=============================================================================

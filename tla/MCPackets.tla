----------------------------- MODULE MCPackets -----------------------------
(***************************************************************************)
(* Packets for TLC: the date 0, the longest that the day's varint is       *)
(* longer than and the shortest that it is not, dates without a kind, of   *)
(* universal and of local time, and the day itself; strings up to one past *)
(* the limit.                                                              *)
(***************************************************************************)
EXTENDS Packets

MCDates == {<<0, "none">>, <<56, "short">>, <<57, "long">>, <<60, "unspecified">>,
            <<63, "utc">>, <<64, "local">>, Day}
=============================================================================

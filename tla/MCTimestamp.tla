---------------------------- MODULE MCTimestamp ----------------------------
(* Constants for the runs of is_timestamp(). *)
EXTENDS Timestamp

OneDigit   == {"9"}
TabOnly    == {"ht"}
LineFeed   == {"lf"}
OneOther   == {"x"}
=============================================================================

------------------------------ MODULE MCRawLog ------------------------------
(* A small instance of RawLog for TLC. *)
EXTENDS RawLog

CONSTANTS nmea, gpsd

MCFeed == <<nmea, gpsd, nmea>>
=============================================================================
